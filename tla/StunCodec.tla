------------------------------ MODULE StunCodec ------------------------------
(***************************************************************************)
(* The wire form of STUN messages (ortp/stun.c): stunEncodeMessage writes  *)
(* a message one attribute after the other, stunParseMessage reads it back,*)
(* and the agent that is checked (mediastreamer/ice.c) computes the        *)
(* message integrity again over what it received.                          *)
(*                                                                         *)
(* A message is what it has: a function from the kinds of its attributes to*)
(* the sizes of their values.  Of the wire only lengths are kept: what the *)
(* header of an attribute claims and how many bytes follow it.  The        *)
(* contents of an attribute are copied; of a hash only what it was computed*)
(* over matters.                                                           *)
(***************************************************************************)
EXTENDS Integers, SequencesExt

CONSTANTS
  Sizes,        \* sizes of the strings and of the data
  PointerSize   \* sizeof(result): 4 where the program is built for

ASSUME CodecAssumption ==
  Sizes \subseteq 1..255 /\ PointerSize \in {4, 8}

Addresses == {"mapped", "response", "source", "changed", "reflected", "xorMapped"}
Strings == {"username", "nonce", "realm", "software"}

\* The order in which stunEncodeMessage asks for the attributes.
Order == <<"transport", "lifetime", "dontFragment", "data", "mapped", "response",
  "changeRequest", "source", "changed", "username", "errorCode", "unknown",
  "reflected", "nonce", "realm", "xorMapped", "priority", "useCandidate",
  "controlled", "controlling", "software", "integrity", "fingerprint">>

VARIABLES
  codecStage,  \* control: encoding, parsing, read or refused
  msg,         \* the message that is sent
  position,    \* in Order
  wire,        \* attributes written: their kind, place, claim and bytes
  length,      \* the length in the header
  signed,      \* what the integrity was computed over
  size,        \* bytes that are still to be parsed
  attributes   \* those parsed

codecVars == <<codecStage, msg, position, wire, length, signed, size, attributes>>

Unsigned == [bytes |-> 0, length |-> 0]
Header == 20
Pad(n) == (4 - (n % 4)) % 4

\* ptr - buf: where the next attribute begins, or the message ends.
Text == IF wire = <<>> THEN Header ELSE Last(wire).at + 4 + Last(wire).bytes
-----------------------------------------------------------------------------
\* The messages of the program.
One(kinds) == [k \in kinds |-> 0]
With(m, k, n) == [j \in DOMAIN m \cup {k} |-> IF j = k THEN n ELSE m[j]]

\* ice_sendtest
Check(n, use, role) ==
  With(One({"priority", role, "integrity", "fingerprint"}
             \cup IF use THEN {"useCandidate"} ELSE {}), "username", n)

\* the answer of ice_process_stun_message; its password is not initialized,
\* so that the integrity may be there or not
CheckAnswer(n, sw, signs) ==
  With(With(One({"xorMapped", "fingerprint"}
                  \cup IF signs THEN {"integrity"} ELSE {}), "username", n),
       "software", sw)

\* _ice_createErrorResponse
ErrorAnswer(n) == With(One({"fingerprint"}), "errorCode", n)

\* stunServerProcessMsg, for a request without and with a username, which it
\* returns; it takes a long one for an address.  Errors have no reason.
ServerKinds == {"xorMapped", "mapped", "source", "changed"}
ServerAnswer(sw) == With(One(ServerKinds), "software", sw)
ServerAnswerTo(n, sw) ==
  With(With(One(ServerKinds \cup IF n > 64 THEN {"reflected"} ELSE {}),
            "username", n), "software", sw)
ServerError == With(One({}), "errorCode", 0)

\* turnSendAllocate, without and with the answer to its first request, whose
\* nonce and realm it returns
Allocate(sw) == With(One({"transport", "dontFragment"}), "software", sw)
AllocateAgain(n, nonce, realm, sw) ==
  With(With(With(With(Allocate(sw), "username", n), "nonce", nonce), "realm", realm),
       "integrity", 0)

Messages ==
       {Check(n, use, role) : n \in Sizes, use \in BOOLEAN,
                              role \in {"controlled", "controlling"}}
  \cup {CheckAnswer(n, sw, signs) : n \in Sizes, sw \in Sizes, signs \in BOOLEAN}
  \cup {ErrorAnswer(n) : n \in {r \in Sizes : r < 128}}      \* texts of ice.c
  \cup {ServerAnswer(n) : n \in Sizes} \cup {Allocate(n) : n \in Sizes}
  \cup {ServerAnswerTo(n, sw) : n \in Sizes, sw \in Sizes}
  \cup {AllocateAgain(n, nonce, realm, sw) : n \in Sizes, nonce \in Sizes,
                                           realm \in Sizes, sw \in Sizes}
  \cup {With(One({}), "data", n) : n \in Sizes}              \* send_stun_message
  \cup {One({}), One({"changeRequest"}), One({"fingerprint"}), \* stunSendTest
         ServerError}
-----------------------------------------------------------------------------
\* encodeAtr...: the length that the header of an attribute claims.
Claim(k, n) ==
  CASE k \in Strings \cup {"data"} -> n
    [] k \in Addresses \cup {"controlled", "controlling"} -> 8
    [] k = "errorCode" -> 4 + n
    [] k = "unknown" -> 2 + 2 * n
    [] k \in {"useCandidate", "dontFragment"} -> 0
    [] k = "integrity" -> 20
    [] OTHER -> 4

\* Mutant of Written: the strings are not padded.
WrittenBare(k, n) == IF k = "unknown" THEN 2 * n ELSE Claim(k, n)

\* The bytes written after that header.
Written(k, n) ==
  IF k = "unknown" THEN 2 * n ELSE Claim(k, n) + Pad(Claim(k, n))

\* Mutant of LengthFor: the length is that of the text so far.
LengthForText(k, text) == text - Header

\* encode16(lengthp, ...): what the header says while a hash is computed.
LengthFor(k, text) ==
  text - Header + (IF k = "integrity" THEN 24 ELSE 8)

\* One attribute of stunEncodeMessage, or its last statement.
Encode ==
  /\ codecStage = "encoding"
  /\ IF position > Len(Order)
     THEN /\ codecStage' = "parsing" /\ length' = Text - Header
          /\ size' = Text - Header
          /\ UNCHANGED <<position, wire, signed>>
     ELSE LET k == Order[position] IN
          /\ position' = position + 1
          /\ IF k \in DOMAIN msg
             THEN wire' = Append(wire, [kind |-> k, at |-> Text, claim |-> Claim(k, msg[k]),
                                        bytes |-> Written(k, msg[k])])
             ELSE wire' = wire
          /\ IF k \in DOMAIN msg /\ k \in {"integrity", "fingerprint"}
             THEN length' = LengthFor(k, Text) ELSE length' = length
          /\ signed' = IF k \in DOMAIN msg /\ k = "integrity"
                       THEN [bytes |-> Text, length |-> LengthFor(k, Text)]
                       ELSE signed
          /\ UNCHANGED <<codecStage, size>>
  /\ UNCHANGED <<msg, attributes>>
-----------------------------------------------------------------------------
\* stunParseAtr..., turnParseAtr..., iceParseAtr...: the lengths they take.
Takes(k, len) ==
  CASE k \in Addresses \cup {"controlled", "controlling"} -> len = 8
    [] k \in Strings -> len < 256
    [] k = "data" -> len < 1500
    [] k = "errorCode" -> len >= 4 /\ len < 132
    [] k = "unknown" -> len < PointerSize /\ len % 4 = 0
    [] k = "lifetime" -> len = PointerSize
    [] k = "integrity" -> len = 20
    [] k \in {"useCandidate", "dontFragment"} -> TRUE
    [] OTHER -> len = 4

\* The size that is kept of a value.
Kept(k, len) ==
  CASE k \in Strings \cup {"data"} -> len [] k = "errorCode" -> len - 4 [] OTHER -> 0

\* The attribute that begins where so many bytes are left, if one does.
At(left) == {i \in DOMAIN wire : wire[i].at = Text - left}

\* One turn of the loop of stunParseMessage.  Bytes in the middle of an
\* attribute may be read as anything; the message counts as refused then.
Parse ==
  /\ codecStage = "parsing" /\ size > 0
  /\ IF length # Text - Header \/ At(size) = {}
     THEN codecStage' = "refused" /\ UNCHANGED <<size, attributes>>
     ELSE LET a == wire[CHOOSE i \in At(size) : TRUE] IN
          IF a.claim + 4 > size \/ ~Takes(a.kind, a.claim)
          THEN codecStage' = "refused" /\ UNCHANGED <<size, attributes>>
          ELSE /\ size' = size - 4 - a.claim - Pad(a.claim)
               /\ attributes' = With(attributes, a.kind, Kept(a.kind, a.claim))
               /\ codecStage' = codecStage
  /\ UNCHANGED <<msg, position, wire, length, signed>>

ParseEnds ==
  /\ codecStage = "parsing" /\ size = 0
  /\ codecStage' = IF length = Text - Header THEN "read" ELSE "refused"
  /\ UNCHANGED <<msg, position, wire, length, signed, size, attributes>>

\* ice_process_stun_message: what the integrity of a message is compared to.
Covered ==
  LET fingerprint == IF "fingerprint" \in DOMAIN attributes THEN 8 ELSE 0 IN
  [bytes |-> Text - 24 - fingerprint,
   length |-> length - fingerprint]
-----------------------------------------------------------------------------
CodecInit ==
  /\ codecStage = "encoding" /\ msg \in Messages /\ position = 1
  /\ wire = <<>> /\ length = 0 /\ signed = Unsigned /\ size = 0 /\ attributes = One({})

CodecNext == Encode \/ Parse \/ ParseEnds

CodecSpec == CodecInit /\ [][CodecNext]_codecVars
-----------------------------------------------------------------------------
\* Every message of the program is read back as it was: no attribute is
\* refused, lost or cut.
MessagesAreReadBack ==
  /\ codecStage # "refused"
  /\ codecStage = "read" => attributes = msg

\* Who checks the integrity covers the bytes that were signed, and the length
\* in the header is then what it was then.
SignedIsCovered ==
  codecStage = "read" /\ "integrity" \in DOMAIN attributes => Covered = signed
=============================================================================
