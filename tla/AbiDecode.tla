------------------------------ MODULE AbiDecode -------------------------------
(***************************************************************************)
(* The decoders of what the contracts answer (src/src/sync/parsers-abi.ts, *)
(* builder-parsers-decode.ts): each reads fixed words and the strings that *)
(* offsets lead to, and must take back what the ABI put there.  An answer  *)
(* is a sequence of 32-byte words, a word the number it holds or a part of *)
(* a string; it may reach the decoder short of its last words.             *)
(***************************************************************************)
EXTENDS Integers, SequencesExt, FiniteSetsExt

CONSTANTS
  Lengths, \* the lengths of a string, in bytes
  Amounts  \* the numbers of a struct

ASSUME AbiDecodeAssumption == Lengths \subseteq Nat /\ Amounts \subseteq Nat

VARIABLES
  struct, \* what the contract holds: its kind and its fields
  words   \* the answer, or what is left of it

abiVars == <<struct, words>>

Num(n)     == [n |-> n, of |-> "number", part |-> 0]
Part(s, k) == [n |-> 0, of |-> s, part |-> k]
Chunks(len) == (len + 31) \div 32

\* A text is its length and the words it lies in.
Text(name, len) == [len |-> len, words |-> [k \in 1 .. Chunks(len) |-> Part(name, k)]]
Texts(name)     == {Text(name, len) : len \in Lengths}
EmptyText       == [len |-> 0, words |-> <<>>]

\* The ABI: a head of static words and offsets, in bytes, to the strings after it.
Stored(text)  == <<Num(text.len)>> \o text.words
StoredAll(ts)   == FlattenSeq([i \in DOMAIN ts |-> Stored(ts[i])])
OffsetTo(ts, i, head) == Num(32 * (head + Len(StoredAll(SubSeq(ts, 1, i - 1)))))
Offsets(ts, head)     == [i \in DOMAIN ts |-> OffsetTo(ts, i, head)]
Row(ns)     == [i \in DOMAIN ns |-> Num(ns[i])]
Flag(b)     == IF b THEN 1 ELSE 0
StringArray(ts) == <<Num(Len(ts))>> \o Offsets(ts, Len(ts)) \o StoredAll(ts)

Encoded(s) ==
  CASE s.kind = "provider" ->
         Row(<<32, 192, s.stake, s.createdAt, 0, 0, Flag(s.isDeleted)>>) \o Stored(s.endpoint)
    [] s.kind = "bid" -> Row(<<s.provider, s.modelId, s.price, 0, s.createdAt, s.deletedAt>>)
    [] s.kind = "session" ->
         Row(<<32, s.user, 7, s.stake, 352, s.closeoutType, 0, s.openedAt, s.endsAt, s.closedAt,
               Flag(s.isActive), 0, 0>>)
    [] s.kind = "model" ->
         Row(<<32, 7, 8, 9, 3, 256, 256 + 32 * Len(Stored(s.name)), 5, 0>>) \o Stored(s.name) \o StringArray(s.tags)
    [] s.kind = "created" -> Row(<<32, 160, s.admin, 6, s.deposit, s.lock>>) \o Stored(s.name)
    [] s.kind = "subnet"  -> Row(<<160, s.admin, 6, s.deposit, s.lock>>) \o Stored(s.name)
    [] s.kind = "metadata" ->
         LET ts == <<s.name, s.description, s.url, s.logo>> IN Offsets(ts, 4) \o StoredAll(ts)

Structs ==
  [kind: {"provider"}, stake: Amounts, createdAt: Amounts, isDeleted: BOOLEAN, endpoint: Texts("e")]
  \union [kind: {"bid"}, provider: Amounts, modelId: Amounts, price: Amounts, createdAt: Amounts, deletedAt: Amounts]
  \union [kind: {"session"}, user: Amounts, stake: Amounts, closeoutType: Amounts, openedAt: Amounts,
          endsAt: Amounts, closedAt: Amounts, isActive: BOOLEAN]
  \union [kind: {"model"}, name: Texts("n"), tags: {<<>>, <<Text("t", 3)>>, <<Text("t", 3), Text("u", 33)>>}]
  \union [kind: {"created", "subnet"}, admin: Amounts, deposit: Amounts, lock: Amounts, name: Texts("n")]
  \union [kind: {"metadata"}, name: Texts("n"), description: Texts("d"), url: Texts("u"), logo: Texts("l")]

AbiInit == struct \in Structs /\ words = Encoded(struct)

\* What reaches the decoder may be short of words.
Cut ==
  /\ words # <<>>
  /\ words' = Front(words) /\ UNCHANGED struct

AbiNext == Cut
-----------------------------------------------------------------------------
\* What a decoder answers where it gives up: no field.
Null == <<>>

\* Word i, counted from 0; a slice past the end is empty, and no number.
Has(i)   == i < Len(words)
At(i)    == words[i + 1].n
Holds(i, len) == i + Chunks(len) <= Len(words)
Slice(i, len) ==
  [len |-> len, words |-> SubSeq(words, i + 1, IF Holds(i, len) THEN i + Chunks(len) ELSE Len(words))]

\* strLenPos: the offset counts from the tuple, one word in.
EndpointAt == 1 + At(1) \div 32

parseProviderResult ==
  IF ~Has(6) \/ At(6) # 0 THEN Null
  ELSE IF ~Has(EndpointAt) \/ At(EndpointAt) > 500 \/ ~Holds(EndpointAt + 1, At(EndpointAt)) THEN Null
  ELSE [stake |-> At(2), createdAt |-> At(3), endpoint |-> Slice(EndpointAt + 1, At(EndpointAt))]

parseBidResult ==
  IF ~Has(5) THEN Null
  ELSE [provider |-> At(0), modelId |-> At(1), price |-> At(2), createdAt |-> At(4), deletedAt |-> At(5)]

parseSessionResult ==
  IF ~Has(10) THEN Null
  ELSE [user |-> At(1), stake |-> At(3), closeoutType |-> At(5), openedAt |-> At(7), endsAt |-> At(8),
        closedAt |-> At(9), isActive |-> At(10) # 0,
        isEarlyTermination |-> At(9) > 0 /\ At(9) < At(8)]

\* Where the tags are looked for: a word past the name's last.
TagsAt(len) == 10 + Chunks(len) + 1

ModelTags(at) ==
  IF ~Has(at + 1) \/ At(at) = 0 \/ At(at) >= 20 THEN <<>>
  ELSE LET TagAt(t) == at + 1 + At(at + t) \div 32
           Read(t)  == Has(at + t) /\ Has(TagAt(t) + 1) /\ At(TagAt(t)) \in 1 .. 49
           taken    == SelectSeq([t \in 1 .. Min({At(at), 10}) |-> t], Read)
       IN [k \in DOMAIN taken |-> Slice(TagAt(taken[k]) + 1, At(TagAt(taken[k])))]

parseModelResult ==
  IF ~Has(9) \/ At(9) = 0 \/ At(9) > 100 THEN Null
  ELSE [name |-> Slice(10, At(9)), tags |-> ModelTags(TagsAt(At(9)))]

parseSubnetCreatedEvent ==
  IF ~Has(5) THEN Null
  ELSE LET at == 1 + At(1) \div 32 IN
       [admin |-> At(2), deposit |-> At(4), lock |-> At(5),
        name |-> IF Has(at) THEN Slice(at + 1, At(at)) ELSE EmptyText]

\* Mutant: the string is read without asking whether it is there.
TextAt_unchecked(at) == IF Has(at) THEN Slice(at + 1, At(at)) ELSE EmptyText

\* A string that does not lie within the answer is read as empty.
TextAt(at) ==
  IF Has(at) THEN IF Holds(at + 1, At(at)) THEN Slice(at + 1, At(at)) ELSE EmptyText ELSE EmptyText

parseSubnetStruct ==
  IF ~Has(4) THEN Null
  ELSE IF At(1) = 0 THEN Null
  ELSE [admin |-> At(1), deposit |-> At(3), lock |-> At(4), name |-> TextAt(At(0) \div 32)]

parseSubnetMetadata ==
  LET field(i) == IF Has(7) THEN TextAt(At(i) \div 32) ELSE EmptyText IN
  [name |-> field(0), description |-> field(1), url |-> field(2), logo |-> field(3)]

Decoded ==
  CASE struct.kind = "provider" -> parseProviderResult
    [] struct.kind = "bid"      -> parseBidResult
    [] struct.kind = "session"  -> parseSessionResult
    [] struct.kind = "model"    -> parseModelResult
    [] struct.kind = "created"  -> parseSubnetCreatedEvent
    [] struct.kind = "subnet"   -> parseSubnetStruct
    [] struct.kind = "metadata" -> parseSubnetMetadata
-----------------------------------------------------------------------------
AbiTypeOK == struct \in Structs /\ IsPrefix(words, Encoded(struct))

Whole == words = Encoded(struct)

\* Answered with null: a deleted provider, a subnet without an admin, a model
\* without a name, and strings longer than the decoders take.
Hidden == \/ struct.kind = "provider" /\ (struct.isDeleted \/ struct.endpoint.len > 500)
          \/ struct.kind = "model" /\ struct.name.len \notin 1 .. 100
          \/ struct.kind = "subnet" /\ struct.admin = 0

TextFields == {"endpoint", "name", "description", "url", "logo"}

Agrees(got, field) == field \in DOMAIN struct => got[field] = struct[field]

(***************************************************************************)
(* A whole answer is decoded to what the contract encoded, whatever the    *)
(* lengths of the strings in it, or hidden as the code means to hide it; a *)
(* model's tags are left to TagsAreRead.                                   *)
(***************************************************************************)
DecodedAsEncoded == Whole =>
  IF Hidden THEN Decoded = Null
  ELSE Decoded # Null /\ \A field \in DOMAIN Decoded \ {"tags"} : Agrees(Decoded, field)

(***************************************************************************)
(* An answer short of words is given up, or what is read of it is true: a  *)
(* number is the contract's, a string the contract's or empty.  The name   *)
(* of a model and of a SubnetCreated event are not checked so.             *)
(***************************************************************************)
CutIsNotMisread ==
  struct.kind \in {"provider", "bid", "session", "subnet", "metadata"} /\ Decoded # Null =>
    \A field \in DOMAIN Decoded :
      Agrees(Decoded, field) \/ (field \in TextFields /\ Decoded[field] = EmptyText)

(***************************************************************************)
(* "Parse tags array - follows the name": the tags read of a whole answer  *)
(* are those of the model.                                                 *)
(***************************************************************************)
TagsAreRead == Whole /\ struct.kind = "model" /\ ~Hidden => Decoded.tags = struct.tags

(***************************************************************************)
(* Decoders read what was encoded, and of a cut answer nothing false.      *)
(***************************************************************************)
DecodersAreTrue == AbiTypeOK /\ DecodedAsEncoded /\ CutIsNotMisread
=============================================================================
