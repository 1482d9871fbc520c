--------------------------- MODULE DirectoryProofs ---------------------------
(***************************************************************************)
(* Lemmas on what one request does to the directory, for any names, bytes  *)
(* and bounds: FarEndProofs and TransferProofs rest on them.               *)
(***************************************************************************)
EXTENDS Directory, SequenceTheorems, TLAPS

USE DirectoryAssumption

\* on_write's copy: bytes, as long as the file was or the write reaches.
LEMMA OverwrittenType ==
  ASSUME NEW bytes \in Bytes, NEW offset \in Nat, NEW data \in Bytes
  PROVE  /\ Overwritten(bytes, offset, data) \in Bytes
         /\ Len(Overwritten(bytes, offset, data)) = MaxOf(Len(bytes), offset + Len(data))
<1> DEFINE size == MaxOf(Len(bytes), offset + Len(data))
<1>1. size \in Nat
  BY DEF Bytes, MaxOf
<1>2. ASSUME NEW i \in 1 .. size
      PROVE  (IF offset < i /\ i <= offset + Len(data) THEN data[i - offset]
              ELSE IF i <= Len(bytes) THEN bytes[i] ELSE 0) \in 0 .. ByteMax
  <2>1. CASE offset < i /\ i <= offset + Len(data)
    <3>1. i - offset \in 1 .. Len(data)
      BY <1>1, <2>1 DEF Bytes
    <3> QED BY <2>1, <3>1 DEF Bytes
  <2>2. CASE ~ (offset < i /\ i <= offset + Len(data)) /\ i <= Len(bytes)
    <3>1. i \in 1 .. Len(bytes)
      BY <1>1, <2>2 DEF Bytes
    <3> QED BY <2>2, <3>1 DEF Bytes
  <2>3. CASE ~ (offset < i /\ i <= offset + Len(data)) /\ ~ (i <= Len(bytes))
    BY <2>3
  <2> QED BY <2>1, <2>2, <2>3
<1>3. Overwritten(bytes, offset, data) \in [1 .. size -> 0 .. ByteMax]
  BY <1>2 DEF Overwritten
<1>4. Overwritten(bytes, offset, data) \in Bytes
  <2>1. Overwritten(bytes, offset, data) \in Seq(0 .. ByteMax)
    BY <1>1, <1>3, SeqDef
  <2> QED BY <2>1 DEF Bytes
<1>5. Len(Overwritten(bytes, offset, data)) = size
  BY <1>1, <1>3, <1>4, LenProperties, DOMAIN Overwritten(bytes, offset, data) = 1 .. size DEF Bytes
<1> QED BY <1>4, <1>5

\* touch hands out a time, later than `newest` until the u32 is full.
LEMMA TouchedType ==
  ASSUME newest \in Time, NEW now \in Time
  PROVE  /\ Touched(now) \in Time
         /\ Touched(now) \in 1 .. TimeMax
         /\ Touched(now) >= newest
         /\ Touched(now) > newest \/ Touched(now) = TimeMax
BY DEF Touched, MaxOf, MinOf, Time

\* insert puts a value under a name and keeps the others.
LEMMA InsertType ==
  ASSUME NEW K, NEW V, NEW map, IsMap(map, K, V), NEW key \in K, NEW value \in V
  PROVE  /\ IsMap(Insert(map, key, value), K, V)
         /\ DOMAIN Insert(map, key, value) = DOMAIN map \cup {key}
         /\ Insert(map, key, value)[key] = value
         /\ \A k \in DOMAIN map : k # key => Insert(map, key, value)[k] = map[k]
BY DEF Insert, IsMap

\* remove keeps the other names.
LEMMA WithoutType ==
  ASSUME NEW K, NEW V, NEW map, IsMap(map, K, V), NEW key
  PROVE  /\ IsMap(Without(map, key), K, V)
         /\ DOMAIN Without(map, key) = DOMAIN map \ {key}
         /\ \A k \in DOMAIN map : k # key => Without(map, key)[k] = map[k]
BY DEF Without, IsMap

\* Every request leaves the directory of its type.  on_open for writing.
LEMMA OpenType ==
  ASSUME DirTypeOK, NEW n \in Name, NEW flags, NEW now \in Time, OpenForWriting(n, flags, now)
  PROVE  DirTypeOK'
<1>1. <<>> \in Bytes
  BY DEF Bytes
<1>2. Touched(now) \in Time
  BY TouchedType DEF DirTypeOK
<1>3. IsMap(files', Name, Bytes)
  BY <1>1, InsertType DEF OpenForWriting, DirTypeOK
<1>4. IsMap(written', Name, Time)
  BY <1>2, InsertType DEF OpenForWriting, Touch, DirTypeOK
<1> QED BY <1>2, <1>3, <1>4 DEF OpenForWriting, Touch, DirTypeOK

\* on_write.
LEMMA WriteType ==
  ASSUME DirTypeOK, NEW n \in Name, NEW offset \in Nat, NEW data \in Bytes, NEW now \in Time,
         WriteTo(n, offset, data, now)
  PROVE  DirTypeOK'
<1> DEFINE held == IF n \in DOMAIN files THEN files[n] ELSE <<>>
<1>1. held \in Bytes
  <2>1. <<>> \in Bytes
    BY DEF Bytes
  <2>2. n \in DOMAIN files => files[n] \in Bytes
    BY DEF DirTypeOK, IsMap
  <2> QED BY <2>1, <2>2
<1> HIDE DEF held
<1>2. Overwritten(held, offset, data) \in Bytes
  BY <1>1, OverwrittenType
<1>3. Touched(now) \in Time
  BY TouchedType DEF DirTypeOK
<1>4. IsMap(files', Name, Bytes)
  BY <1>2, InsertType DEF WriteTo, DirTypeOK, held
<1>5. IsMap(written', Name, Time)
  BY <1>3, InsertType DEF WriteTo, Touch, DirTypeOK
<1> QED BY <1>3, <1>4, <1>5 DEF WriteTo, Touch, DirTypeOK

\* REMOVE.
LEMMA RemoveType ==
  ASSUME DirTypeOK, NEW n, RemoveFile(n)
  PROVE  DirTypeOK'
BY WithoutType DEF RemoveFile, DirTypeOK

\* on_rename.
LEMMA RenameType ==
  ASSUME DirTypeOK, NEW from \in Name, NEW to \in Name, RenameFile(from, to)
  PROVE  DirTypeOK'
<1>1. IsMap(Without(files, from), Name, Bytes) /\ files[from] \in Bytes
  BY WithoutType DEF RenameFile, CanRename, DirTypeOK, IsMap
<1>2. IsMap(files', Name, Bytes)
  BY <1>1, InsertType DEF RenameFile
<1>3. IsMap(written', Name, Time)
  <2>1. CASE from \in DOMAIN written
    <3>1. IsMap(Without(written, from), Name, Time) /\ written[from] \in Time
      BY <2>1, WithoutType DEF DirTypeOK, IsMap
    <3> QED BY <2>1, <3>1, InsertType DEF RenameFile
  <2>2. CASE from \notin DOMAIN written
    BY <2>2 DEF RenameFile, DirTypeOK
  <2> QED BY <2>1, <2>2
<1> QED BY <1>2, <1>3 DEF RenameFile, DirTypeOK
=============================================================================
