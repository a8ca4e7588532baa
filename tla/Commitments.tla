----------------------------- MODULE Commitments -----------------------------
(***************************************************************************)
(* The commitments that POST routes return and GET routes take apart:      *)
(* common/types/commitments, common/types/certs and the routes of          *)
(* server/routing.go with the parsing in the handlers.                     *)
(*                                                                         *)
(* A path is the sequence of bytes its hex digits spell, with or without   *)
(* 0x, and a tail for what is left of it: an odd hex digit, or characters  *)
(* that are neither hex digits nor slashes.                                *)
(***************************************************************************)
EXTENDS Naturals, Sequences

Byte == 0..255
VersionBytes == 0..2
Modes == {"standard", "generic", "keccak"}
Tails == {"none", "digit", "other"}

-----------------------------------------------------------------------------
(* EncodeCommitment.                                                       *)

OPKeccak256CommitmentByte == 0
OPGenericCommitmentByte == 1
EigenDALayerByte == 0

\* Mutant: the layer byte is forgotten.
EncodeWithoutLayer(mode, v, c) ==
  CASE mode = "standard" -> <<v>> \o c
    [] mode = "generic" -> <<OPGenericCommitmentByte, v>> \o c
    [] mode = "keccak" -> <<OPKeccak256CommitmentByte>> \o c

\* The commitment to the serialized cert, or keccak hash, c.
EncodeCommitment(mode, v, c) ==
  CASE mode = "standard" -> <<v>> \o c
    [] mode = "generic" -> <<OPGenericCommitmentByte, EigenDALayerByte, v>> \o c
    [] mode = "keccak" -> <<OPKeccak256CommitmentByte>> \o c

-----------------------------------------------------------------------------
(* RegisterRoutes: the first route that matches a GET takes it.  Only the  *)
(* standard route asks for the query commitment_mode=standard.             *)

Drop(s, n) == SubSeq(s, n + 1, Len(s))

\* Something follows the first n bytes.
Followed(r, n) == Len(r.bytes) > n \/ (Len(r.bytes) = n /\ r.tail # "none")

IsStandard(r) == r.standard /\ Len(r.bytes) >= 1 /\ r.tail # "other"
IsKeccak(r) == Followed(r, 1) /\ Len(r.bytes) >= 1 /\ r.bytes[1] = OPKeccak256CommitmentByte

\* Mutant: the route takes any commitment type.
IsGenericOfAnyType(r) == Followed(r, 3) /\ Len(r.bytes) >= 3

IsGeneric(r) == Followed(r, 3) /\ Len(r.bytes) >= 3 /\ r.bytes[1] = OPGenericCommitmentByte
IsUnsupported(r) == ~r.standard /\ Len(r.bytes) = 1 /\ r.tail = "none"

Answer(code) == [mode |-> "none", version |-> 0, key |-> <<>>, code |-> code]
Lookup(mode, v, key) == [mode |-> mode, version |-> v, key |-> key, code |-> 0]

\* parseCertVersion and the hex decoding in handleGetShared; the version byte
\* is the n-th byte.
HandleGetShared(mode, r, n) ==
  IF r.bytes[n] \in VersionBytes /\ r.tail = "none"
  THEN Lookup(mode, r.bytes[n], Drop(r.bytes, n))
  ELSE Answer(400)

HandleGetOPKeccakCommitment(r) ==
  IF r.tail = "none" THEN Lookup("keccak", 0, Drop(r.bytes, 1)) ELSE Answer(400)

\* What a GET asks the storage manager for, or the status it is answered with.
RouteGet(r) ==
  IF IsStandard(r) THEN HandleGetShared("standard", r, 1)
  ELSE IF IsKeccak(r) THEN HandleGetOPKeccakCommitment(r)
  ELSE IF IsGeneric(r) THEN HandleGetShared("generic", r, 3)
  ELSE Answer(IF IsUnsupported(r) THEN 400 ELSE 404)

-----------------------------------------------------------------------------
(* Properties.                                                             *)

GetOf(mode, bytes) ==
  [standard |-> mode = "standard", bytes |-> bytes, tail |-> "none"]

\* The commitment "is returned to POST requests, and can be passed back to the
\* same-mode GET routes to retrieve the original payload": the GET looks up the
\* very cert, under its version byte, that was encoded.  No serialized cert is
\* empty.
RoundTrip(mode, v, c) ==
  c # <<>> => RouteGet(GetOf(mode, EncodeCommitment(mode, v, c)))
    = Lookup(mode, IF mode = "keccak" THEN 0 ELSE v, c)

\* The path is the commitment to the cert, or keccak hash, c of version v in a mode.
\* The layer byte of a generic commitment may be any byte.
Commits(r, mode, v, c) ==
  /\ r.tail = "none"
  /\ mode = "standard" <=> r.standard
  /\ CASE mode = "standard" -> v \in VersionBytes /\ r.bytes = <<v>> \o c
       [] mode = "generic" ->
            /\ v \in VersionBytes /\ c # <<>> /\ Len(r.bytes) >= 3
            /\ r.bytes = <<OPGenericCommitmentByte, r.bytes[2], v>> \o c
       [] mode = "keccak" ->
            v = 0 /\ c # <<>> /\ r.bytes = <<OPKeccak256CommitmentByte>> \o c

\* A GET is looked up exactly if its path is a commitment, and then for the very
\* mode, version and cert that the path spells: no prefix of another mode is taken
\* for a cert, no commitment is refused, and nothing else gets past the routes.
OnlyCommitments(r) ==
  LET a == RouteGet(r)
  IN /\ a.mode # "none" => Commits(r, a.mode, a.version, a.key)
     /\ \A mode \in Modes, v \in VersionBytes, n \in 0..Len(r.bytes) :
          Commits(r, mode, v, Drop(r.bytes, n)) => a = Lookup(mode, v, Drop(r.bytes, n))

\* "We only support da_layer_byte 0x00 which represents EigenDA", and the route lets
\* others through "to return a 404": a generic commitment of another layer is never
\* looked up.
OnlyOurLayer(r) ==
  RouteGet(r).mode = "generic" => r.bytes[2] = EigenDALayerByte
=============================================================================
