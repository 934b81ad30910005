------------------------------- MODULE Codecs --------------------------------
(***************************************************************************)
(* A datum becomes a text, the text is changed on its way, and the reader  *)
(* takes it or refuses it.  Four forms: Base64 in lines (armor) and in one *)
(* line (header), and the Bech32 texts of a recipient and of an identity.  *)
(***************************************************************************)
EXTENDS Base64, Bech32

CONSTANTS
    Data,          \* what Base64 encodes: sequences of bytes
    KeyData,       \* the keys
    Probes,        \* characters put into a Base64 text
    KeyProbes,     \* characters put into a key text
    LastDigits,    \* last digits of the keys other programs write
    MaxChanges,    \* bound: changes of a text on its way
    DeepKeys, DeepChanges   \* bound of the recipients of some keys

ASSUME CodecsAssumption ==
    /\ Data \subseteq Seq(Octet)
    /\ DeepKeys \subseteq KeyData /\ KeyData \subseteq [1..KeyLen -> Octet]
    /\ {MaxChanges, DeepChanges} \subseteq Nat
    /\ Probes \subseteq Character /\ KeyProbes \subseteq 1..255
    /\ LastDigits \subseteq 0..31

VARIABLES
    form, data,   \* which codec, and what is encoded
    sent, text,   \* the text as it was written, and as it is now
    changes,      \* how often it was changed
    result        \* what the reader returned, once it has

vars == <<form, data, sent, text, changes, result>>

InBase64 == form \in {"lines", "line"}
Texts(f, d) == CASE f = "lines" -> base64encode(d, TRUE)
                 [] f = "line" -> base64encode(d, FALSE)
                 [] f = "recipient" -> PubText(d)
                 [] f = "identity" -> PrivText(d)

Init ==
    /\ form \in {"lines", "line", "recipient", "identity"}
    /\ data \in IF InBase64 THEN Data ELSE KeyData
    /\ sent = Texts(form, data)
    /\ text = sent
    /\ changes = 0
    /\ result = <<>>

\* Another writer of keys may leave any bits at the end of the last digit.
OtherWriter ==
    /\ ~InBase64 /\ changes = 0 /\ result = <<>>
    /\ LET n == Len(text) - 6
           vs == [i \in 1 .. (8 * KeyLen + 4) \div 5 |->
                    chartab[ToLower(text[n - (8 * KeyLen + 4) \div 5 + i])]]
           label == IF form = "recipient" THEN PubLabel ELSE PrivLabel
       IN \E v \in LastDigits :
            LET new == Append(Front(vs), v)
                all == new \o encodesum(Checked(labelcheck(label), new))
                low == label \o <<One>> \o
                       [i \in DOMAIN all |-> dictionary[all[i] + 1]]
            IN sent' = IF form = "recipient" THEN low ELSE Raised(low)
    /\ text' = sent'
    /\ UNCHANGED <<form, data, changes, result>>

ChangesOf(t) ==
    IF form = "recipient" /\ \E key \in DeepKeys : t = PubText(key) THEN DeepChanges
    ELSE MaxChanges

Change ==
    /\ changes < ChangesOf(sent) /\ result = <<>>
    /\ LET with == IF InBase64 THEN Probes ELSE KeyProbes
       IN \/ \E i \in DOMAIN text, c \in with : text' = ReplaceAt(text, i, c)
          \/ \E i \in 1 .. Len(text) + 1, c \in with : text' = InsertAt(text, i, c)
          \/ \E i \in DOMAIN text : text' = RemoveAt(text, i)
    /\ changes' = changes + 1
    /\ UNCHANGED <<form, data, sent, result>>

Read ==
    /\ result = <<>>
    /\ result' = <<CASE form = "lines" -> base64decode(text, TRUE)
                     [] form = "line" -> base64decode(text, FALSE)
                     [] form = "recipient" -> x25519pubkey(text)
                     [] form = "identity" -> x25519privkey(text)>>
    /\ UNCHANGED <<form, data, sent, text, changes>>

Done == result # <<>> /\ UNCHANGED vars

Next == OtherWriter \/ Change \/ Read \/ Done

Spec == Init /\ [][Next]_vars

-----------------------------------------------------------------------------
(***************************************************************************)
(* base64.c writes the one text of a datum, and reads back exactly what    *)
(* Accepts says: every text but those that differ from a canonical one in  *)
(* the last character, by a lone symbol or by a misplaced '=' is refused,  *)
(* and what is accepted gives the bytes its whole groups hold.             *)
(***************************************************************************)
Base64Exact ==
    InBase64 =>
      LET pad == form = "lines"
          body == IF pad /\ text # <<>> THEN Front(text) ELSE text
      IN /\ sent = Text(data, pad)
         /\ result # <<>> =>
              /\ result[1].ok <=> Accepts(text, pad)
              /\ result[1].ok => result[1].out = Whole(SymbolsOf(body), 6, 8)
              /\ text = sent => result[1].ok /\ result[1].out = data

\* BIP 173, written over the polynomial: the key a text holds, if it is one.
HoldsKey(t, key) ==
    IF form = "recipient" THEN IsKeyText(t, PubLabel, FALSE, key)
    ELSE IsKeyText(t, PrivLabel, TRUE, key)

(***************************************************************************)
(* bech32.c with its callers writes and accepts exactly the key texts of   *)
(* BIP 173, with any bits at the end of the last digit, and returns the    *)
(* key they hold; a text changed on its way is never taken for a key.      *)
(***************************************************************************)
KeyTextExact ==
    ~InBase64 =>
      /\ changes = 0 /\ result = <<>> =>
           \/ HoldsKey(sent, data)
           \/ sent # Texts(form, data)
      /\ result # <<>> =>
           /\ result[1].ok => HoldsKey(text, result[1].out) /\ text = sent
           /\ text = sent => result[1].ok
           /\ text = Texts(form, data) => result[1].ok /\ result[1].out = data
=============================================================================
