-------------------------- MODULE AiKnowledge_proofs --------------------------
(***************************************************************************)
(* What the AI service remembers, for every number of requests, documents  *)
(* and chunks and every bound on faults and crashes: what is kept of what  *)
(* was saved, which chunks a document has, whom a message may reach.       *)
(***************************************************************************)
EXTENDS AiKnowledge, Selection_proofs

-----------------------------------------------------------------------------
(* The last record of a kind in a sequence of records.                     *)

IsLast(s, kind, r) ==
    \E i \in DOMAIN s : /\ s[i] = r /\ r \in kind
                        /\ \A j \in DOMAIN s : s[j] \in kind => j <= i

(* There is but one last record.                                           *)
LEMMA OneLast ==
    ASSUME NEW T, NEW s \in Seq(T), NEW kind, NEW q, NEW r, IsLast(s, kind, q), IsLast(s, kind, r)
    PROVE  q = r
<1>1. PICK i \in DOMAIN s : s[i] = q /\ q \in kind /\ \A k \in DOMAIN s : s[k] \in kind => k <= i
  BY DEF IsLast
<1>2. PICK j \in DOMAIN s : s[j] = r /\ r \in kind /\ \A k \in DOMAIN s : s[k] \in kind => k <= j
  BY DEF IsLast
<1>3. i <= j /\ j <= i /\ i \in Nat /\ j \in Nat
  BY <1>1, <1>2
<1>4. QED
  BY <1>1, <1>2, <1>3

(* An appended record is the last of its kind and leaves other kinds alone. *)
LEMMA LastAfterAppend ==
    ASSUME NEW T, NEW s \in Seq(T), NEW new \in T, NEW kind
    PROVE  /\ new \in kind => IsLast(Append(s, new), kind, new)
           /\ new \notin kind => \A r : IsLast(Append(s, new), kind, r) <=> IsLast(s, kind, r)
<1> DEFINE t == Append(s, new)
           n == Len(s)
<1>1. /\ n \in Nat /\ DOMAIN s = 1..n /\ DOMAIN t = 1..(n + 1)
      /\ t[n + 1] = new /\ \A i \in 1..n : t[i] = s[i]
  OBVIOUS
<1> HIDE DEF t, n
<1>2. new \in kind => IsLast(t, kind, new)
  BY <1>1 DEF IsLast
<1>3. ASSUME new \notin kind, NEW r, IsLast(t, kind, r) PROVE IsLast(s, kind, r)
  <2>1. PICK i \in DOMAIN t : t[i] = r /\ r \in kind /\ \A j \in DOMAIN t : t[j] \in kind => j <= i
    BY <1>3 DEF IsLast
  <2>2. i \in 1..n
    BY <1>1, <1>3, <2>1
  <2>3. QED
    BY <1>1, <2>1, <2>2 DEF IsLast
<1>4. ASSUME new \notin kind, NEW r, IsLast(s, kind, r) PROVE IsLast(t, kind, r)
  BY <1>1, <1>4 DEF IsLast
<1>5. QED
  BY <1>2, <1>3, <1>4 DEF t

(* The greatest of some positions in a sequence.                           *)
LEMMA MaxPosition ==
    ASSUME NEW T, NEW s \in Seq(T), NEW at \in SUBSET DOMAIN s, at # {}
    PROVE  Max(at) \in at /\ \A i \in at : i <= Max(at)
<1>1. at \in SUBSET Nat /\ Len(s) \in Nat /\ \A i \in at : i <= Len(s)
  OBVIOUS
<1>2. IsFiniteSet(at)
  BY <1>1, FS_BoundedSetOfNaturals
<1>3. PICK m \in at : \A i \in at : i <= m
  BY <1>1, <1>2, Greatest
<1>4. \A i \in at : m >= i
  BY <1>1, <1>3
<1>5. Max(at) \in at /\ \A i \in at : Max(at) >= i
  BY <1>4 DEF Max
<1>6. QED
  BY <1>1, <1>5

(* What stands at the greatest of the positions of a kind is the last of it. *)
LEMMA LastAtMax ==
    ASSUME NEW T, NEW s \in Seq(T), NEW kind, NEW at, at = {i \in DOMAIN s : s[i] \in kind}
    PROVE  /\ at # {} => IsLast(s, kind, s[Max(at)])
           /\ \A r : IsLast(s, kind, r) => at # {} /\ s[Max(at)] = r
<1>1. ASSUME at # {} PROVE IsLast(s, kind, s[Max(at)])
  <2>1. Max(at) \in at /\ \A i \in at : i <= Max(at)
    BY <1>1, MaxPosition
  <2>2. QED
    BY <2>1 DEF IsLast
<1>2. ASSUME NEW r, IsLast(s, kind, r) PROVE at # {} /\ s[Max(at)] = r
  <2>1. at # {}
    BY <1>2 DEF IsLast
  <2>2. QED
    BY <1>1, <1>2, <2>1, OneLast
<1>3. QED
  BY <1>1, <1>2

(* Picking keeps what is last of a kind among those picked.                *)
LEMMA LastOfPicked ==
    ASSUME NEW T, NEW s \in Seq(T), NEW among, NEW kind, NEW at \in SUBSET DOMAIN s,
           \A i \in DOMAIN s : i \in at <=> s[i] \in among
    PROVE  \A r : IsLast(Picked(s, at), kind, r) <=> IsLast(s, kind \cap among, r)
<1> DEFINE n      == Cardinality(at)
           picked == Picked(s, at)
<1>1. n \in Nat /\ DOMAIN picked = 1..n
  <2>1. n \in Nat /\ picked \in Seq(T) /\ Len(picked) = n
    BY PickedInOrder
  <2>2. QED
    BY <2>1
<1>2. PICK pos \in [1..n -> at] :
          /\ \A i \in at : \E k \in 1..n : pos[k] = i
          /\ \A j, k \in 1..n : j < k => pos[j] < pos[k]
          /\ \A k \in 1..n : picked[k] = s[pos[k]]
  <2>1. /\ Cardinality(at) \in Nat
        /\ Picked(s, at) \in Seq(T)
        /\ Len(Picked(s, at)) = Cardinality(at)
        /\ \E pos \in [1..Cardinality(at) -> at] :
              /\ \A i \in at : \E k \in 1..Cardinality(at) : pos[k] = i
              /\ \A j, k \in 1..Cardinality(at) : j < k => pos[j] < pos[k]
              /\ \A k \in 1..Cardinality(at) : Picked(s, at)[k] = s[pos[k]]
    BY PickedInOrder
  <2>2. QED
    BY <2>1, Zenon
<1> HIDE DEF n, picked
<1>3. at \subseteq Nat
  OBVIOUS
<1>4. ASSUME NEW r, IsLast(picked, kind, r) PROVE IsLast(s, kind \cap among, r)
  <2>1. PICK i \in 1..n : /\ picked[i] = r /\ r \in kind
                          /\ \A k \in 1..n : picked[k] \in kind => k <= i
    BY <1>1, <1>4 DEF IsLast
  <2>2. pos[i] \in at /\ s[pos[i]] = r
    BY <1>2, <2>1
  <2>3. ASSUME NEW j \in DOMAIN s, s[j] \in kind \cap among PROVE j <= pos[i]
    <3>1. PICK k \in 1..n : pos[k] = j
      BY <1>2, <2>3
    <3>2. k <= i
      BY <1>2, <2>1, <2>3, <3>1
    <3>3. k = i \/ k < i
      BY <1>1, <3>2
    <3>4. QED
      BY <1>2, <1>3, <3>1, <3>3
  <2>4. QED
    BY <2>1, <2>2, <2>3 DEF IsLast
<1>5. ASSUME NEW r, IsLast(s, kind \cap among, r) PROVE IsLast(picked, kind, r)
  <2>1. PICK i \in DOMAIN s : /\ s[i] = r /\ r \in kind \cap among
                              /\ \A j \in DOMAIN s : s[j] \in kind \cap among => j <= i
    BY <1>5 DEF IsLast
  <2>2. PICK k \in 1..n : pos[k] = i
    BY <1>2, <2>1
  <2>3. ASSUME NEW m \in 1..n, picked[m] \in kind PROVE m <= k
    <3>1. pos[m] \in at /\ s[pos[m]] \in kind \cap among
      BY <1>2, <2>3
    <3>2. pos[m] <= pos[k]
      BY <2>1, <2>2, <3>1
    <3>3. ~(k < m)
      BY <1>2, <1>3, <3>2
    <3>4. QED
      BY <1>1, <3>3
  <2>4. QED
    BY <1>1, <1>2, <2>1, <2>2, <2>3 DEF IsLast
<1>6. QED
  BY <1>4, <1>5 DEF picked

(* Where a kind occurs, there is a last of it.                             *)
LEMMA SomeLast ==
    ASSUME NEW T, NEW s \in Seq(T), NEW kind, NEW i \in DOMAIN s, s[i] \in kind
    PROVE  \E r \in kind : IsLast(s, kind, r)
<1> DEFINE at == {j \in DOMAIN s : s[j] \in kind}
<1>1. i \in at
  OBVIOUS
<1>2. IsLast(s, kind, s[Max(at)])
  BY <1>1, LastAtMax
<1>3. QED
  BY <1>2 DEF IsLast

-----------------------------------------------------------------------------
(* What the stored chunks of a document are.                               *)

ChunkAt(d, n) == {r \in Record : r.document = d /\ r.n = n}

Whole == {r \in Record : r.whole}

WholeAt(d, n) == ChunkAt(d, n) \cap Whole

Of(d) == {r \in Record : r.document = d}

AsChunk(d, r) == [document |-> d, n |-> r.n, text |-> r.text]

LEMMA AboutIsOf ==
    ASSUME NEW records \in Seq(Record), NEW d
    PROVE  About(records, d) = {i \in DOMAIN records : records[i] \in Of(d)}
BY DEF About, Of

(* get_chunks gives the last record of each chunk of the document, nothing  *)
(* else.                                                                   *)
LEMMA LatestItems ==
    ASSUME NEW records \in Seq(Record), NEW d
    PROVE  LET latest == Latest(records, d)
           IN  /\ \E len \in Nat : DOMAIN latest = 1..len
               /\ \A k \in DOMAIN latest :
                     \E r \in Record : IsLast(records, ChunkAt(d, r.n), r) /\ latest[k] = AsChunk(d, r)
               /\ \A r \in Record : IsLast(records, ChunkAt(d, r.n), r) =>
                     \E k \in DOMAIN latest : latest[k] = AsChunk(d, r)
<1> DEFINE ofIt    == About(records, d)
           numbers == {records[i].n : i \in ofIt}
           ids     == Ascending(numbers)
           at(n)   == {i \in ofIt : records[i].n = n}
           latest  == Latest(records, d)
<1>1. ofIt \in SUBSET (DOMAIN records) /\ \A i \in DOMAIN records : records[i] \in Record
  BY DEF About
<1>2. numbers \in SUBSET Nat
  BY <1>1 DEF Record
<1>3. IsFiniteSet(numbers)
  <2>1. ofIt \in SUBSET Nat /\ Len(records) \in Nat /\ \A i \in ofIt : i <= Len(records)
    BY <1>1
  <2>2. IsFiniteSet(ofIt)
    BY <2>1, FS_BoundedSetOfNaturals
  <2>3. [i \in ofIt |-> records[i].n] \in Surjection(ofIt, numbers)
    BY DEF Surjection
  <2>4. QED
    BY <2>2, <2>3, FS_Surjection
<1>4. /\ Cardinality(numbers) \in Nat
      /\ ids \in [1..Cardinality(numbers) -> numbers]
      /\ \A x \in numbers : \E k \in 1..Cardinality(numbers) : ids[k] = x
  BY <1>2, <1>3, AscendingSorts
<1>5. /\ DOMAIN latest = 1..Cardinality(numbers)
      /\ \A k \in DOMAIN latest :
            latest[k] = [document |-> d, n |-> ids[k], text |-> records[Max(at(ids[k]))].text]
  BY <1>4 DEF Latest
<1>6. ASSUME NEW n \in Nat PROVE at(n) = {i \in DOMAIN records : records[i] \in ChunkAt(d, n)}
  BY <1>1 DEF About, ChunkAt
<1>7. ASSUME NEW n \in numbers
      PROVE  \E r \in Record : r.n = n /\ records[Max(at(n))] = r /\ IsLast(records, ChunkAt(d, r.n), r)
  <2>1. at(n) # {} /\ n \in Nat
    BY <1>2, <1>7
  <2>2. IsLast(records, ChunkAt(d, n), records[Max(at(n))])
    <3> HIDE DEF at
    <3>1. QED
      BY <1>6, <2>1, LastAtMax
  <2>3. records[Max(at(n))] \in ChunkAt(d, n)
    BY <2>2 DEF IsLast
  <2>4. QED
    BY <2>2, <2>3 DEF ChunkAt
<1> HIDE DEF at, ids, latest, numbers
<1>8. ASSUME NEW k \in DOMAIN latest
      PROVE  \E r \in Record : IsLast(records, ChunkAt(d, r.n), r) /\ latest[k] = AsChunk(d, r)
  <2>1. ids[k] \in numbers
    BY <1>4, <1>5
  <2>2. PICK r \in Record : /\ r.n = ids[k] /\ records[Max(at(ids[k]))] = r
                            /\ IsLast(records, ChunkAt(d, r.n), r)
    BY <1>7, <2>1
  <2>3. QED
    BY <1>5, <2>2 DEF AsChunk
<1>9. ASSUME NEW r \in Record, IsLast(records, ChunkAt(d, r.n), r)
      PROVE  \E k \in DOMAIN latest : latest[k] = AsChunk(d, r)
  <2>1. PICK i \in DOMAIN records : records[i] = r /\ r \in ChunkAt(d, r.n)
    BY <1>9 DEF IsLast
  <2>2. i \in ofIt
    BY <2>1 DEF About, ChunkAt
  <2>3. r.n \in numbers
    BY <2>1, <2>2 DEF numbers
  <2>4. PICK k \in DOMAIN latest : ids[k] = r.n
    BY <1>4, <1>5, <2>3
  <2>5. PICK q \in Record : /\ q.n = r.n /\ records[Max(at(r.n))] = q
                            /\ IsLast(records, ChunkAt(d, q.n), q)
    BY <1>7, <2>3
  <2>6. q = r
    BY <1>9, <2>5, OneLast
  <2>7. QED
    BY <1>5, <2>4, <2>5, <2>6 DEF AsChunk
<1>10. QED
  BY <1>4, <1>5, <1>8, <1>9 DEF latest

-----------------------------------------------------------------------------
(* The files, and what is torn in them.                                    *)

Missing(f) == saved[f] \ ToSet(file[f].records)

Glue(f) == IF file[f].torn THEN 1 ELSE 0

FilesTyped ==
    /\ file \in [Files -> FileOf(Record)]
    /\ saved \in [Files -> SUBSET Record]
    /\ tears \in [Files -> Nat]
    /\ faults \in Nat /\ crashes \in Nat
    /\ faults + crashes <= MaxMishaps

(* What is missing, and what will be glued to a torn end, is paid for by a  *)
(* torn line, and that by a fault or a crash.                               *)
Damage(f) ==
    /\ IsFiniteSet(saved[f])
    /\ Cardinality(Missing(f)) + Glue(f) <= tears[f]
    /\ tears[f] <= faults + crashes
    /\ ~file[f].decodes => faults + crashes > 0

FilesOK == FilesTyped /\ \A f \in Files : Damage(f)

\* An append as f sees it: the record r was written, torn or left out.
Write(f, r, ok) ==
    \/ /\ ~file[f].torn
       /\ file'[f] = [records |-> Append(file[f].records, r), torn |-> FALSE, decodes |-> file[f].decodes]
       /\ tears'[f] = tears[f]
    \/ /\ file[f].torn
       /\ file'[f] = [records |-> file[f].records, torn |-> FALSE, decodes |-> file[f].decodes]
       /\ tears'[f] = tears[f]
    \/ /\ ~ok /\ file'[f] = file[f] /\ tears'[f] = tears[f]
    \/ /\ ~ok /\ tears'[f] = tears[f] + 1
       /\ \E decodes \in BOOLEAN :
             file'[f] = [records |-> file[f].records, torn |-> TRUE, decodes |-> decodes]

LEMMA AppendedCases ==
    ASSUME FilesTyped, NEW f \in Files, NEW r \in Record, NEW ok \in BOOLEAN, Appended(f, r, ok)
    PROVE  /\ Write(f, r, ok)
           /\ \A g \in Files \ {f} : file'[g] = file[g] /\ tears'[g] = tears[g]
           /\ DOMAIN file' = Files /\ DOMAIN tears' = Files
<1> DEFINE old == file[f]
<1>1. /\ file \in [Files -> FileOf(Record)] /\ tears \in [Files -> Nat]
      /\ old = [records |-> old.records, torn |-> old.torn, decodes |-> old.decodes]
      /\ old.torn \in BOOLEAN /\ old.decodes \in BOOLEAN
  BY DEF FilesTyped, FileOf
<1>2. PICK remains \in (IF ok THEN {"all"} ELSE Remains) :
          /\ file' = [file EXCEPT ![f] = Left(@, r, remains)]
          /\ tears' = IF remains \in {"part", "halfCharacter"} THEN [tears EXCEPT ![f] = @ + 1] ELSE tears
  BY DEF Appended
<1>3. /\ file'[f] = Left(old, r, remains)
      /\ \A g \in Files \ {f} : file'[g] = file[g] /\ tears'[g] = tears[g]
      /\ DOMAIN file' = Files /\ DOMAIN tears' = Files
  BY <1>1, <1>2
<1>4. CASE remains = "nothing"
  BY <1>1, <1>2, <1>3, <1>4 DEF Write, Left, Remains
<1>5. CASE remains = "all"
  <2>1. file'[f] = Written(old, r) /\ tears' = tears
    BY <1>2, <1>3, <1>5 DEF Left
  <2>2. CASE old.torn
    <3>1. file'[f] = [records |-> old.records, torn |-> FALSE, decodes |-> old.decodes]
      BY <1>1, <2>1, <2>2 DEF Written
    <3>2. QED
      BY <1>3, <2>1, <2>2, <3>1 DEF Write
  <2>3. CASE ~old.torn
    <3>1. file'[f] = [records |-> Append(old.records, r), torn |-> FALSE, decodes |-> old.decodes]
      BY <1>1, <2>1, <2>3 DEF Written
    <3>2. QED
      BY <1>3, <2>1, <2>3, <3>1 DEF Write
  <2>4. QED
    BY <1>1, <2>2, <2>3
<1>6. CASE remains \in {"part", "halfCharacter"}
  <2>1. \E decodes \in BOOLEAN :
           file'[f] = [records |-> old.records, torn |-> TRUE, decodes |-> decodes]
    <3>1. file'[f] = IF remains = "part" THEN [old EXCEPT !.torn = TRUE]
                                         ELSE [old EXCEPT !.torn = TRUE, !.decodes = FALSE]
      BY <1>3, <1>6 DEF Left
    <3>2. QED
      BY <1>1, <3>1
  <2>2. ~ok /\ tears'[f] = tears[f] + 1
    BY <1>1, <1>2, <1>6
  <2>3. QED
    BY <1>3, <2>1, <2>2 DEF Write
<1>7. QED
  BY <1>2, <1>4, <1>5, <1>6 DEF Remains

(* One more record saved leaves at most one more missing.                   *)
LEMMA OneMoreMissing ==
    ASSUME NEW S, IsFiniteSet(S), NEW kept, NEW r
    PROVE  /\ IsFiniteSet(S \cup {r})
           /\ IsFiniteSet(S \ kept) /\ Cardinality(S \ kept) \in Nat
           /\ Cardinality((S \cup {r}) \ kept) \in Nat
           /\ Cardinality((S \cup {r}) \ kept) <= Cardinality(S \ kept) + 1
           /\ Cardinality((S \cup {r}) \ (kept \cup {r})) \in Nat
           /\ Cardinality((S \cup {r}) \ (kept \cup {r})) <= Cardinality(S \ kept)
           /\ Cardinality(S \ (kept \cup {r})) \in Nat
           /\ Cardinality(S \ (kept \cup {r})) <= Cardinality(S \ kept)
<1> DEFINE old == S \ kept
<1>1. old \in SUBSET S
  OBVIOUS
<1>2. IsFiniteSet(old) /\ Cardinality(old) \in Nat
  BY <1>1, FS_Subset, FS_CardinalityType
<1>3. /\ IsFiniteSet(old \cup {r})
      /\ Cardinality(old \cup {r}) = IF r \in old THEN Cardinality(old) ELSE Cardinality(old) + 1
  BY <1>2, FS_AddElement
<1>4. (S \cup {r}) \ kept \in SUBSET (old \cup {r})
  OBVIOUS
<1>5. (S \cup {r}) \ (kept \cup {r}) \in SUBSET old /\ S \ (kept \cup {r}) \in SUBSET old
  OBVIOUS
<1> HIDE DEF old
<1>6. /\ Cardinality((S \cup {r}) \ kept) <= Cardinality(old \cup {r})
      /\ IsFiniteSet((S \cup {r}) \ kept)
  BY <1>3, <1>4, FS_Subset
<1>7. /\ Cardinality((S \cup {r}) \ (kept \cup {r})) <= Cardinality(old)
      /\ IsFiniteSet((S \cup {r}) \ (kept \cup {r}))
      /\ Cardinality(S \ (kept \cup {r})) <= Cardinality(old)
      /\ IsFiniteSet(S \ (kept \cup {r}))
  BY <1>2, <1>5, FS_Subset
<1>8. IsFiniteSet(S \cup {r})
  BY FS_AddElement
<1>9. /\ Cardinality((S \cup {r}) \ kept) \in Nat
      /\ Cardinality((S \cup {r}) \ (kept \cup {r})) \in Nat
      /\ Cardinality(S \ (kept \cup {r})) \in Nat
      /\ Cardinality(old \cup {r}) \in Nat
  BY <1>3, <1>6, <1>7, FS_CardinalityType
<1>10. Cardinality((S \cup {r}) \ kept) <= Cardinality(old) + 1
  BY <1>2, <1>3, <1>6, <1>9
<1>11. QED
  BY <1>2, <1>7, <1>8, <1>9, <1>10 DEF old

LEMMA SetOfAppend ==
    ASSUME NEW T, NEW s \in Seq(T), NEW r \in T
    PROVE  ToSet(Append(s, r)) = ToSet(s) \cup {r}
<1>1. /\ DOMAIN s = 1..Len(s) /\ Len(s) \in Nat /\ DOMAIN Append(s, r) = 1..(Len(s) + 1)
      /\ Append(s, r)[Len(s) + 1] = r /\ \A i \in 1..Len(s) : Append(s, r)[i] = s[i]
  OBVIOUS
<1>2. \A x : x \in ToSet(Append(s, r)) <=> x \in ToSet(s) \/ x = r
  BY <1>1 DEF ToSet
<1>3. QED
  BY <1>2

(* A fault is counted, within the bound.                                    *)
LEMMA FaultsCounted ==
    ASSUME faults \in Nat, crashes \in Nat, faults + crashes <= MaxMishaps,
           NEW failed \in BOOLEAN, Faulty(failed), crashes' = crashes
    PROVE  /\ faults' \in Nat /\ faults' + crashes' <= MaxMishaps
           /\ faults' = IF failed THEN faults + 1 ELSE faults
<1>1. MaxMishaps \in Nat
  BY KnowledgeAssumption
<1>2. CASE failed
  BY <1>1, <1>2 DEF Faulty
<1>3. CASE ~failed
  BY <1>3 DEF Faulty
<1>4. QED
  BY <1>2, <1>3

(* An append, whatever becomes of it, and the fault that goes with it.      *)
LEMMA AppendKeepsFiles ==
    ASSUME FilesOK, NEW f \in Files, NEW r \in Record, NEW ok \in BOOLEAN, AppendTo(f, r, ok),
           NEW failed \in BOOLEAN, ~ok => failed, Faulty(failed), crashes' = crashes
    PROVE  FilesOK'
<1>1. /\ Write(f, r, ok)
      /\ \A g \in Files \ {f} : file'[g] = file[g] /\ tears'[g] = tears[g]
      /\ DOMAIN file' = Files /\ DOMAIN tears' = Files
  BY AppendedCases DEF AppendTo, FilesOK
<1>2. /\ file \in [Files -> FileOf(Record)] /\ saved \in [Files -> SUBSET Record]
      /\ tears \in [Files -> Nat] /\ faults \in Nat /\ crashes \in Nat
      /\ faults + crashes <= MaxMishaps
  BY DEF FilesOK, FilesTyped
<1>3. /\ faults' \in Nat /\ faults' + crashes' <= MaxMishaps /\ faults' >= faults
      /\ ~ok => faults' = faults + 1
  <2>1. /\ faults' \in Nat /\ faults' + crashes' <= MaxMishaps
        /\ faults' = IF failed THEN faults + 1 ELSE faults
    BY <1>2, FaultsCounted
  <2>2. QED
    BY <1>2, <2>1
<1>4. /\ saved' \in [Files -> SUBSET Record]
      /\ \A g \in Files \ {f} : saved'[g] = saved[g]
      /\ saved'[f] = IF ok THEN saved[f] \cup {r} ELSE saved[f]
  BY <1>2 DEF AppendTo
<1>5. /\ file[f].records \in Seq(Record) /\ file[f].torn \in BOOLEAN /\ file[f].decodes \in BOOLEAN
      /\ tears[f] \in Nat
  BY <1>2 DEF FileOf
<1>6. Append(file[f].records, r) \in Seq(Record)
  BY <1>5
<1>7. file'[f] \in FileOf(Record) /\ tears'[f] \in Nat
  <2>1. file[f] \in FileOf(Record)
    BY <1>2
  <2>2. \/ file'[f] = file[f]
        \/ \E records \in Seq(Record), torn, decodes \in BOOLEAN :
              file'[f] = [records |-> records, torn |-> torn, decodes |-> decodes]
    <3> HIDE DEF Files
    <3>1. QED
      BY <1>1, <1>5, <1>6 DEF Write
  <2>3. tears'[f] \in Nat
    BY <1>1, <1>5 DEF Write
  <2>4. file'[f] \in FileOf(Record)
    <3> DEFINE new == file'[f]
    <3>1. new \in FileOf(Record) \/ \E records \in Seq(Record), torn, decodes \in BOOLEAN :
              new = [records |-> records, torn |-> torn, decodes |-> decodes]
      BY <2>1, <2>2
    <3> HIDE DEF new
    <3>2. new \in FileOf(Record)
      BY <3>1 DEF FileOf
    <3>3. QED
      BY <3>2 DEF new
  <2>5. QED
    BY <2>3, <2>4
<1>8. file' \in [Files -> FileOf(Record)] /\ tears' \in [Files -> Nat]
  <2>1. \A g \in Files : file'[g] \in FileOf(Record) /\ tears'[g] \in Nat
    BY <1>1, <1>2, <1>7
  <2>2. file' = [g \in Files |-> file'[g]] /\ tears' = [g \in Files |-> tears'[g]]
    <3>1. Appended(f, r, ok)
      BY DEF AppendTo
    <3>2. QED
      BY <1>2, <3>1 DEF Appended
  <2>3. QED
    BY <2>1, <2>2
<1>9. ASSUME NEW g \in Files \ {f} PROVE Damage(g)'
  <2>1. file'[g] = file[g] /\ tears'[g] = tears[g] /\ saved'[g] = saved[g] /\ tears[g] \in Nat
    BY <1>1, <1>2, <1>4
  <2>2. Damage(g)
    BY DEF FilesOK
  <2>3. QED
    BY <1>2, <1>3, <2>1, <2>2 DEF Damage, Missing, Glue
<1>10. Damage(f)'
  <2> DEFINE S    == saved[f]
             kept == ToSet(file[f].records)
             c    == Cardinality(S \ kept)
             kept1 == ToSet(file'[f].records)
             c1   == Cardinality(saved'[f] \ kept1)
  <2>1. /\ IsFiniteSet(S) /\ c + Glue(f) <= tears[f]
        /\ tears[f] <= faults + crashes /\ (~file[f].decodes => faults + crashes > 0)
    BY DEF FilesOK, Damage, Missing
  <2>2. /\ IsFiniteSet(S \cup {r}) /\ c \in Nat
        /\ Cardinality((S \cup {r}) \ kept) \in Nat
        /\ Cardinality((S \cup {r}) \ kept) <= c + 1
        /\ Cardinality((S \cup {r}) \ (kept \cup {r})) \in Nat
        /\ Cardinality((S \cup {r}) \ (kept \cup {r})) <= c
        /\ Cardinality(S \ (kept \cup {r})) \in Nat
        /\ Cardinality(S \ (kept \cup {r})) <= c
    <3> HIDE DEF S, kept
    <3>1. QED
      BY <2>1, OneMoreMissing
  <2>3. ToSet(Append(file[f].records, r)) = kept \cup {r}
    BY <1>5, SetOfAppend
  <2>4. /\ IsFiniteSet(saved'[f])
        /\ faults \in Nat /\ faults' \in Nat /\ crashes \in Nat /\ crashes' = crashes
    BY <1>2, <1>3, <1>4, <2>1, <2>2
  <2>5. /\ c1 \in Nat /\ c1 + (IF file'[f].torn THEN 1 ELSE 0) <= tears'[f]
        /\ tears'[f] <= faults' + crashes' /\ (~file'[f].decodes => faults' + crashes' > 0)
    <3>1. CASE /\ ~file[f].torn
               /\ file'[f] = [records |-> Append(file[f].records, r), torn |-> FALSE, decodes |-> file[f].decodes]
               /\ tears'[f] = tears[f]
      <4>1. kept1 = kept \cup {r} /\ ~file'[f].torn /\ file'[f].decodes = file[f].decodes
        BY <2>3, <3>1
      <4>2. c1 \in Nat /\ c1 <= c
        BY <1>4, <2>2, <4>1
      <4> HIDE DEF c1, c, kept1, S, kept
      <4>3. /\ tears'[f] = tears[f] /\ faults' >= faults
            /\ Glue(f) = 0 /\ (IF file'[f].torn THEN 1 ELSE 0) = 0
        BY <1>3, <3>1 DEF Glue
      <4>4. c1 <= tears'[f] /\ tears'[f] <= faults' + crashes'
        BY <1>5, <2>1, <2>2, <2>4, <4>2, <4>3
      <4>5. ~file'[f].decodes => faults' + crashes' > 0
        BY <2>1, <2>4, <4>1, <4>3
      <4>6. QED
        BY <4>2, <4>3, <4>4, <4>5
    <3>2. CASE /\ file[f].torn
               /\ file'[f] = [records |-> file[f].records, torn |-> FALSE, decodes |-> file[f].decodes]
               /\ tears'[f] = tears[f]
      <4>1. kept1 = kept /\ ~file'[f].torn /\ file'[f].decodes = file[f].decodes
        BY <3>2
      <4>2. c1 \in Nat /\ c1 <= c + 1
        BY <1>4, <2>2, <4>1
      <4> HIDE DEF c1, c, kept1, S, kept
      <4>3. /\ tears'[f] = tears[f] /\ faults' >= faults
            /\ Glue(f) = 1 /\ (IF file'[f].torn THEN 1 ELSE 0) = 0
        BY <1>3, <3>2 DEF Glue
      <4>4. c1 <= tears'[f] /\ tears'[f] <= faults' + crashes'
        BY <1>5, <2>1, <2>2, <2>4, <4>2, <4>3
      <4>5. ~file'[f].decodes => faults' + crashes' > 0
        BY <2>1, <2>4, <4>1, <4>3
      <4>6. QED
        BY <4>2, <4>3, <4>4, <4>5
    <3>3. CASE ~ok /\ file'[f] = file[f] /\ tears'[f] = tears[f]
      <4>1. c1 = c
        BY <1>4, <3>3
      <4> HIDE DEF c1, c, S
      <4>2. Glue(f) = IF file'[f].torn THEN 1 ELSE 0
        BY <3>3 DEF Glue
      <4>3. tears'[f] = tears[f] /\ file'[f].decodes = file[f].decodes /\ faults' >= faults
        BY <1>3, <3>3
      <4>4. QED
        BY <1>5, <2>1, <2>2, <2>4, <4>1, <4>2, <4>3
    <3>4. CASE /\ ~ok /\ tears'[f] = tears[f] + 1
               /\ \E decodes \in BOOLEAN :
                     file'[f] = [records |-> file[f].records, torn |-> TRUE, decodes |-> decodes]
      <4>1. kept1 = kept /\ file'[f].torn
        BY <3>4
      <4>2. c1 = c
        BY <1>4, <3>4, <4>1
      <4> HIDE DEF c1, c, kept1, S, kept
      <4>3. tears'[f] = tears[f] + 1 /\ faults' = faults + 1 /\ Glue(f) \in {0, 1}
        BY <1>3, <3>4 DEF Glue
      <4>4. QED
        BY <1>5, <2>1, <2>2, <2>4, <4>1, <4>2, <4>3
    <3>5. QED
      BY <1>1, <3>1, <3>2, <3>3, <3>4 DEF Write
  <2>6. QED
    BY <2>4, <2>5 DEF Damage, Missing, Glue
<1>11. QED
  BY <1>2, <1>3, <1>4, <1>8, <1>9, <1>10 DEF FilesOK, FilesTyped

(* What leaves the files alone keeps what holds of them.                    *)
LEMMA FilesAlone ==
    ASSUME FilesOK, UNCHANGED <<file, saved, tears>>, NEW failed \in BOOLEAN, Faulty(failed), crashes' = crashes
    PROVE  FilesOK'
<1>1. /\ \A f \in Files : Damage(f) /\ tears[f] \in Nat
      /\ FilesTyped /\ faults \in Nat /\ crashes \in Nat
  BY DEF FilesOK, FilesTyped
<1>2. faults' \in Nat /\ faults' + crashes' <= MaxMishaps /\ faults' >= faults
  <2>1. /\ faults' \in Nat /\ faults' + crashes' <= MaxMishaps
        /\ faults' = IF failed THEN faults + 1 ELSE faults
    BY <1>1, FaultsCounted DEF FilesTyped
  <2>2. QED
    BY <1>1, <2>1
<1>3. ASSUME NEW f \in Files PROVE Damage(f)'
  <2>1. file'[f] = file[f] /\ tears'[f] = tears[f] /\ saved'[f] = saved[f] /\ tears[f] \in Nat
    BY <1>1
  <2>2. /\ Damage(f) /\ faults \in Nat /\ crashes \in Nat /\ crashes' = crashes
        /\ faults' \in Nat /\ faults' >= faults
    BY <1>1, <1>2
  <2>3. Missing(f)' = Missing(f) /\ Glue(f)' = Glue(f)
    BY <2>1 DEF Missing, Glue
  <2>4. /\ IsFiniteSet(saved'[f])
        /\ Cardinality(Missing(f)') + Glue(f)' <= tears'[f]
    <3>1. IsFiniteSet(saved[f]) /\ Cardinality(Missing(f)) + Glue(f) <= tears[f]
      BY <2>2, Zenon DEF Damage
    <3>2. QED
      BY <2>1, <2>3, <3>1, Zenon
  <2>5. tears'[f] <= faults' + crashes' /\ (~file'[f].decodes => faults' + crashes' > 0)
    <3>1. tears[f] <= faults + crashes /\ (~file[f].decodes => faults + crashes > 0)
      BY <2>2 DEF Damage
    <3>2. /\ faults + crashes <= faults' + crashes'
          /\ faults + crashes \in Nat /\ faults' + crashes' \in Nat
      <4>1. ASSUME NEW i \in Nat, NEW j \in Nat, NEW k \in Nat, i >= j
            PROVE  j + k <= i + k /\ j + k \in Nat /\ i + k \in Nat
        BY ONLY <4>1
      <4>2. faults' >= faults /\ faults' \in Nat /\ faults \in Nat /\ crashes \in Nat /\ crashes' = crashes
        BY <2>2, Zenon
      <4>3. QED
        BY <4>1, <4>2, Zenon
    <3> DEFINE m == faults + crashes
               n == faults' + crashes'
    <3> HIDE DEF m, n
    <3>3. tears[f] <= m /\ m <= n /\ m \in Nat /\ n \in Nat /\ (~file[f].decodes => m > 0)
      BY <3>1, <3>2, Zenon DEF m, n
    <3>4. tears'[f] <= n /\ (~file'[f].decodes => n > 0)
      BY <2>1, <3>3
    <3>5. QED
      BY <3>4 DEF n
  <2>6. QED
    BY <2>4, <2>5 DEF Damage
<1>4. QED
  BY <1>1, <1>2, <1>3 DEF FilesOK, FilesTyped

LEMMA CrashKeepsFiles ==
    ASSUME FilesOK, Crash
    PROVE  FilesOK'
<1>1. /\ file \in [Files -> FileOf(Record)] /\ saved \in [Files -> SUBSET Record]
      /\ tears \in [Files -> Nat] /\ faults \in Nat /\ crashes \in Nat
      /\ \A f \in Files : Damage(f)
  BY DEF FilesOK, FilesTyped
<1>2. /\ saved' = saved /\ faults' = faults /\ crashes' = crashes + 1
      /\ faults' + crashes' <= MaxMishaps
  BY <1>1, KnowledgeAssumption DEF Crash
<1>3. CASE UNCHANGED <<file, tears>>
  <2>1. \A f \in Files : Damage(f)'
    BY <1>1, <1>2, <1>3 DEF Damage, Missing, Glue
  <2>2. QED
    BY <1>1, <1>2, <1>3, <2>1 DEF FilesOK, FilesTyped
<1>4. CASE \E f \in Writing, inCharacter \in BOOLEAN : Torn(f, inCharacter)
  <2>1. PICK f \in Writing, inCharacter \in BOOLEAN : Torn(f, inCharacter)
    BY <1>4
  <2>2. /\ file' = [file EXCEPT ![f].torn = TRUE, ![f].decodes = @ /\ ~inCharacter]
        /\ tears' = [tears EXCEPT ![f] = @ + 1]
    BY <2>1 DEF Torn
  <2>3. f \in Files
    BY DEF Writing, WritesTo, Files
  <2>4. /\ file[f].records \in Seq(Record) /\ file[f].torn \in BOOLEAN /\ file[f].decodes \in BOOLEAN
        /\ tears[f] \in Nat
    BY <1>1, <2>3 DEF FileOf
  <2>5. /\ file'[f].records = file[f].records /\ file'[f].torn = TRUE
        /\ tears'[f] = tears[f] + 1
        /\ \A g \in Files \ {f} : file'[g] = file[g] /\ tears'[g] = tears[g]
    BY <1>1, <2>2, <2>3 DEF FileOf
  <2>6. file' \in [Files -> FileOf(Record)] /\ tears' \in [Files -> Nat]
    <3> DEFINE old == file[f]
               new == [old EXCEPT !.torn = TRUE, !.decodes = @ /\ ~inCharacter]
    <3>1. file' = [file EXCEPT ![f] = new]
      BY <1>1, <2>2, <2>3
    <3>2. new \in FileOf(Record)
      <4>1. old \in FileOf(Record)
        BY <1>1, <2>3
      <4> HIDE DEF old
      <4>2. QED
        BY <2>1, <4>1 DEF FileOf
    <3> HIDE DEF new
    <3>3. file' \in [Files -> FileOf(Record)]
      BY <1>1, <3>1, <3>2
    <3>4. tears' \in [Files -> Nat]
      <4>1. tears' = [tears EXCEPT ![f] = @ + 1] /\ tears \in [Files -> Nat]
        BY <1>1, <2>2
      <4>2. QED
        BY <2>3, <4>1
    <3>5. QED
      BY <3>3, <3>4
  <2>7. \A g \in Files \ {f} : Damage(g)'
    BY <1>1, <1>2, <2>5 DEF Damage, Missing, Glue
  <2>8. Damage(f)'
    <3> DEFINE c == Cardinality(Missing(f))
    <3>1. IsFiniteSet(saved[f]) /\ c + Glue(f) <= tears[f] /\ tears[f] <= faults + crashes
      BY <1>1, <2>3 DEF Damage
    <3>2. c \in Nat
      BY <3>1, FS_Subset, FS_CardinalityType DEF Missing
    <3>3. Cardinality(Missing(f))' = c /\ Glue(f)' = 1
      BY <1>2, <2>5 DEF Missing, Glue
    <3>4. IsFiniteSet(saved[f])' /\ Glue(f) \in {0, 1}
      BY <1>2, <3>1 DEF Glue
    <3> HIDE DEF c
    <3>5. Cardinality(Missing(f))' + Glue(f)' <= tears'[f] /\ tears'[f] <= faults' + crashes'
      BY <1>1, <1>2, <2>4, <2>5, <3>1, <3>2, <3>3, <3>4
    <3>6. faults' + crashes' > 0
      BY <1>1, <1>2
    <3>7. QED
      BY <3>4, <3>5, <3>6 DEF Damage
  <2>9. QED
    BY <1>1, <1>2, <2>6, <2>7, <2>8 DEF FilesOK, FilesTyped
<1>5. QED
  BY <1>3, <1>4 DEF Crash

-----------------------------------------------------------------------------
(* The jobs, and what the journals say of them.                            *)

JobOK(j) ==
    /\ j \in Job
    /\ j.pc \in Saving => j.document \in Documents /\ j.text \in Texts
    /\ j.pc \in {"document", "read"} => j.counted = 0
    /\ j.pc = "chunks" => j.counted < Count[j.text]

JobsOK == job \in [Analyses -> Job] /\ \A a \in Analyses : JobOK(job[a])

\* An analysis that has begun goes on with the same text of the same document.
KeepsWork(j, k) == j.pc # "idle" => k.pc # "idle" /\ k.document = j.document /\ k.text = j.text

Settled == \A a \in Analyses : KeepsWork(job[a], job'[a])

\* A record tells of an analysis what it analysed.
Authored(r) ==
    /\ r.by \in Analyses /\ job[r.by].pc # "idle"
    /\ r.document = job[r.by].document /\ r.document \in Documents
    /\ r.text = job[r.by].text /\ r.text \in Texts

\* What may stand in a file.
EntryOK(f, r) ==
    /\ f \in {"documents", "events"} => Authored(r)
    /\ f = "documents" => r.whole
    /\ f = "chunks" => r.document \in Documents /\ r.text \in Texts /\ <<r.text, r.n>> \in Contents

JournalsOK == \A f \in Files : \A i \in DOMAIN file[f].records : EntryOK(f, file[f].records[i])

LEMMA ReadRecords ==
    ASSUME FilesOK, NEW f \in Files, NEW failed \in BOOLEAN
    PROVE  /\ ReadOf(f, failed) \in Seq(Record)
           /\ \A k \in DOMAIN ReadOf(f, failed) :
                 \E i \in DOMAIN file[f].records : /\ file[f].records[i].whole
                                                   /\ ReadOf(f, failed)[k] = file[f].records[i]
<1> DEFINE s     == file[f].records
           wholes == {i \in DOMAIN s : s[i].whole}
<1>1. s \in Seq(Record)
  BY DEF FilesOK, FilesTyped, FileOf
<1>2. CASE failed
  BY <1>2 DEF ReadOf
<1>3. CASE ~failed
  <2>1. ReadOf(f, failed) = Picked(s, wholes)
    BY <1>3 DEF ReadOf, Readable
  <2>2. wholes \in SUBSET DOMAIN s
    OBVIOUS
  <2>3. /\ Picked(s, wholes) \in Seq(Record)
        /\ \A k \in DOMAIN Picked(s, wholes) : \E i \in wholes : Picked(s, wholes)[k] = s[i]
    <3> HIDE DEF s, wholes
    <3>1. QED
      BY <1>1, <2>2, PickedItems
  <2>4. QED
    BY <2>1, <2>2, <2>3
<1>4. QED
  BY <1>2, <1>3

(* The chunks that are read of a document are fragments of its texts.       *)
LEMMA ReadChunks ==
    ASSUME FilesOK, JournalsOK, NEW failed \in BOOLEAN, NEW d \in Documents
    PROVE  /\ Latest(ReadOf("chunks", failed), d) \in Seq(Fragment)
           /\ Existing(ReadOf("chunks", failed), d) \subseteq Nat \X Texts
<1> DEFINE records == ReadOf("chunks", failed)
           latest  == Latest(records, d)
<1>1. "chunks" \in Files
  BY DEF Files
<1>2. /\ records \in Seq(Record)
      /\ \A k \in DOMAIN records :
            \E i \in DOMAIN file["chunks"].records : records[k] = file["chunks"].records[i]
  BY <1>1, ReadRecords
<1> HIDE DEF records
<1>3. /\ \E len \in Nat : DOMAIN latest = 1..len
      /\ \A k \in DOMAIN latest :
            \E r \in Record : IsLast(records, ChunkAt(d, r.n), r) /\ latest[k] = AsChunk(d, r)
  BY <1>2, LatestItems
<1> HIDE DEF latest
<1>4. ASSUME NEW k \in DOMAIN latest PROVE latest[k] \in Fragment
  <2>1. PICK r \in Record : IsLast(records, ChunkAt(d, r.n), r) /\ latest[k] = AsChunk(d, r)
    BY <1>3
  <2>2. PICK i \in DOMAIN file["chunks"].records : r = file["chunks"].records[i]
    BY <1>2, <2>1 DEF IsLast
  <2>3. r.text \in Texts /\ <<r.text, r.n>> \in Contents /\ r.n \in Nat
    <3>1. r \in Record /\ EntryOK("chunks", r)
      BY <1>1, <2>1, <2>2 DEF JournalsOK
    <3>2. QED
      BY <3>1 DEF EntryOK, Record
  <2>4. QED
    BY <2>1, <2>3 DEF AsChunk, Fragment
<1>5. latest = [k \in DOMAIN latest |-> latest[k]]
  BY DEF latest, Latest
<1>6. latest \in Seq(Fragment)
  <2>1. PICK len \in Nat : DOMAIN latest = 1..len
    BY <1>3
  <2>2. latest \in [1..len -> Fragment]
    BY <1>4, <1>5, <2>1
  <2>3. QED
    BY <2>2
<1>7. \A chunk \in ToSet(latest) : chunk.n \in Nat /\ chunk.text \in Texts
  BY <1>4 DEF ToSet, Fragment
<1>8. Existing(records, d) \subseteq Nat \X Texts
  BY <1>7 DEF Existing, latest
<1>9. QED
  BY <1>6, <1>8 DEF latest, records

LEMMA OneJob ==
    ASSUME JobsOK, NEW a \in Analyses, NEW new, JobOK(new), KeepsWork(job[a], new),
           job' = [job EXCEPT ![a] = new]
    PROVE  JobsOK' /\ Settled
<1>1. \A b \in Analyses : job'[b] = IF b = a THEN new ELSE job[b]
  BY DEF JobsOK
<1>2. new \in Job /\ \A b \in Analyses : JobOK(job'[b])
  BY <1>1 DEF JobsOK, JobOK
<1>3. job' \in [Analyses -> Job]
  BY <1>2 DEF JobsOK
<1>4. Settled
  BY <1>1 DEF Settled, KeepsWork
<1>5. QED
  BY <1>2, <1>3, <1>4 DEF JobsOK

LEMMA AdmitKeepsJobs ==
    ASSUME JobsOK, NEW a \in Analyses, job[a].pc = "idle", NEW endpoint \in {"contract", "card", "full"},
           NEW work, work.document \in Documents, work.text \in Texts, Admit(a, endpoint, work)
    PROVE  JobsOK' /\ Settled
<1> DEFINE new == [pc |-> "document", endpoint |-> endpoint, document |-> work.document,
                   text |-> work.text, seen |-> {}, counted |-> 0]
<1>1. job' = [job EXCEPT ![a] = new]
  BY DEF Admit
<1>2. JobOK(new)
  <2>1. /\ new \in Job /\ new.document \in Documents /\ new.text \in Texts /\ new.pc = "document"
        /\ new.counted = 0
    BY DEF Job, Saving
  <2> HIDE DEF new
  <2>2. QED
    BY <2>1 DEF JobOK
<1>3. KeepsWork(job[a], new)
  BY DEF KeepsWork
<1> HIDE DEF new
<1>4. QED
  BY <1>1, <1>2, <1>3, OneJob

LEMMA StepKeepsJobs ==
    ASSUME JobsOK, NEW a \in Analyses, NEW pc \in {"read", "context", "done", "failed", "refused"},
           pc \in Saving => job[a].pc \in Saving, pc = "read" => job[a].pc = "document", Step(a, pc)
    PROVE  JobsOK' /\ Settled
<1> DEFINE old == job[a]
           new == [old EXCEPT !.pc = pc]
<1>1. job' = [job EXCEPT ![a] = new]
  BY DEF Step
<1>2. old \in Job /\ JobOK(old)
  BY DEF JobsOK
<1> HIDE DEF old
<1>3. JobOK(new)
  <2>1. /\ pc \in Saving => old.document \in Documents /\ old.text \in Texts
        /\ pc = "read" => old.counted = 0
    BY <1>2 DEF JobOK, old
  <2>2. /\ new \in Job /\ new.pc = pc /\ new.document = old.document /\ new.text = old.text
        /\ new.counted = old.counted
    BY <1>2 DEF Job, Saving
  <2> HIDE DEF new
  <2>3. QED
    BY <2>1, <2>2 DEF JobOK
<1>4. KeepsWork(old, new)
  BY <1>2 DEF KeepsWork, Job
<1> HIDE DEF new
<1>5. QED
  BY <1>1, <1>3, <1>4, OneJob DEF old

LEMMA ReadingKeepsJobs ==
    ASSUME JobsOK, FilesOK, JournalsOK, NEW a \in Analyses, ReadExisting(a)
    PROVE  JobsOK' /\ Settled
<1>1. PICK failed \in BOOLEAN :
          job' = [job EXCEPT ![a].pc = "chunks",
                             ![a].seen = Existing(ReadOf("chunks", failed), job[a].document)]
  BY DEF ReadExisting
<1> DEFINE old  == job[a]
           seen == Existing(ReadOf("chunks", failed), job[a].document)
           new  == [old EXCEPT !.pc = "chunks", !.seen = seen]
<1>2. /\ old \in Job /\ old.pc = "read" /\ old.document \in Documents /\ old.text \in Texts
      /\ old.counted = 0
  BY DEF JobsOK, JobOK, ReadExisting, Saving
<1>3. seen \subseteq Nat \X Texts
  BY <1>2, ReadChunks
<1> HIDE DEF seen, old
<1>4. new \in Job /\ new.pc = "chunks" /\ new.document = old.document /\ new.text = old.text /\ new.counted = 0
  BY <1>2, <1>3 DEF Job, Saving
<1>5. job' = [job EXCEPT ![a] = new]
  BY <1>1 DEF old, seen
<1> HIDE DEF new
<1>6. Count[old.text] \in Nat \ {0}
  BY <1>2, KnowledgeAssumption
<1>7. JobOK(new) /\ KeepsWork(old, new)
  BY <1>2, <1>4, <1>6 DEF JobOK, KeepsWork
<1>8. QED
  BY <1>5, <1>7, OneJob DEF old

LEMMA ChunkKeepsJobs ==
    ASSUME JobsOK, NEW a \in Analyses, SaveChunk(a)
    PROVE  JobsOK' /\ Settled
<1> DEFINE old  == job[a]
           n    == old.counted + 1
           then == IF old.endpoint = "full" THEN "context" ELSE "event"
<1>1. /\ old \in Job /\ old.pc = "chunks" /\ old.document \in Documents /\ old.text \in Texts
      /\ old.counted \in Nat /\ then \in {"context", "event"}
  BY DEF JobsOK, JobOK, SaveChunk, Saving, Job
<1>2. CASE n < Count[old.text]
  <2> DEFINE new == [old EXCEPT !.counted = n]
  <2>1. job' = [job EXCEPT ![a] = new]
    BY <1>2 DEF SaveChunk
  <2> HIDE DEF old
  <2>2. /\ new \in Job /\ new.pc = "chunks" /\ new.document = old.document /\ new.text = old.text
        /\ new.counted = n
    BY <1>1 DEF Job
  <2> HIDE DEF new
  <2>3. JobOK(new) /\ KeepsWork(old, new)
    BY <1>1, <1>2, <2>2 DEF JobOK, KeepsWork
  <2>4. QED
    BY <2>1, <2>3, OneJob DEF old
<1>3. CASE ~(n < Count[old.text])
  <2> DEFINE new == [old EXCEPT !.counted = 0, !.seen = {}, !.pc = then]
  <2>1. job' = [job EXCEPT ![a] = new]
    BY <1>3 DEF SaveChunk
  <2> HIDE DEF old, then
  <2>2. /\ new \in Job /\ new.pc = then /\ new.document = old.document /\ new.text = old.text
    BY <1>1 DEF Job, Saving
  <2> HIDE DEF new
  <2>3. JobOK(new) /\ KeepsWork(old, new)
    BY <1>1, <2>2 DEF JobOK, KeepsWork
  <2>4. QED
    BY <2>1, <2>3, OneJob DEF old
<1>4. QED
  BY <1>2, <1>3

LEMMA CrashKeepsJobs ==
    ASSUME JobsOK, Crash
    PROVE  JobsOK' /\ Settled
<1> DEFINE lost(a) == [job[a] EXCEPT !.pc = "lost"]
<1>1. \A a \in Analyses : job'[a] = IF job[a].pc \in Saving THEN lost(a) ELSE job[a]
  BY DEF Crash
<1>2. ASSUME NEW a \in Analyses
      PROVE  /\ lost(a) \in Job /\ lost(a).pc = "lost"
             /\ lost(a).document = job[a].document /\ lost(a).text = job[a].text
  <2> DEFINE old == job[a]
  <2>1. old \in Job
    BY DEF JobsOK
  <2> HIDE DEF old
  <2>2. LET new == [old EXCEPT !.pc = "lost"]
        IN  new \in Job /\ new.pc = "lost" /\ new.document = old.document /\ new.text = old.text
    BY <2>1 DEF Job
  <2>3. QED
    BY <2>2 DEF old
<1> HIDE DEF lost
<1>3. \A a \in Analyses : JobOK(job'[a]) /\ KeepsWork(job[a], job'[a])
  BY <1>1, <1>2 DEF JobsOK, JobOK, KeepsWork, Saving
<1>4. job' = [a \in Analyses |-> job'[a]]
  BY DEF Crash
<1>5. job' \in [Analyses -> Job]
  BY <1>3, <1>4 DEF JobOK
<1>6. QED
  BY <1>3, <1>5 DEF JobsOK, Settled

(* Every step leaves the jobs in order, and each analysis with its work.    *)
LEMMA JobsStep ==
    ASSUME JobsOK, FilesOK, JournalsOK, [Next]_vars
    PROVE  JobsOK' /\ Settled
<1>1. ASSUME NEW a \in Analyses, NEW endpoint \in {"contract", "card", "full"}, NEW work \in Works,
             StartAnalysis(a, endpoint, work)
      PROVE  JobsOK' /\ Settled
  <2>1. work.document \in Documents /\ work.text \in Texts
    BY KnowledgeAssumption
  <2>2. QED
    BY <1>1, <2>1, AdmitKeepsJobs DEF StartAnalysis
<1>2. ASSUME NEW a \in Analyses, NEW endpoint \in {"card", "full"}, NEW upload \in Uploads,
             StartUpload(a, endpoint, upload)
      PROVE  JobsOK' /\ Settled
  <2>1. CASE Accepted(upload)
    <3> DEFINE work == [document |-> UploadId[upload.stem], text |-> upload.text]
    <3>1. work.document \in Documents /\ work.text \in Texts
      BY KnowledgeAssumption
    <3>2. Admit(a, endpoint, work) /\ job[a].pc = "idle"
      BY <1>2, <2>1 DEF StartUpload
    <3> HIDE DEF work
    <3>3. QED
      BY <3>1, <3>2, AdmitKeepsJobs
  <2>2. CASE ~Accepted(upload)
    <3>1. Step(a, "refused")
      BY <1>2, <2>2 DEF StartUpload
    <3>2. QED
      BY <3>1, StepKeepsJobs DEF Saving
  <2>3. QED
    BY <2>1, <2>2
<1>3. ASSUME NEW a \in Analyses, SaveDocument(a) PROVE JobsOK' /\ Settled
  BY <1>3, StepKeepsJobs DEF SaveDocument, Saving
<1>4. ASSUME NEW a \in Analyses, ReadExisting(a) PROVE JobsOK' /\ Settled
  BY <1>4, ReadingKeepsJobs
<1>5. ASSUME NEW a \in Analyses, ReadExistingFails(a) PROVE JobsOK' /\ Settled
  BY <1>5, StepKeepsJobs DEF ReadExistingFails, Saving
<1>6. ASSUME NEW a \in Analyses, SaveChunk(a) PROVE JobsOK' /\ Settled
  BY <1>6, ChunkKeepsJobs
<1>7. ASSUME NEW a \in Analyses, SaveEvent(a) PROVE JobsOK' /\ Settled
  BY <1>7, StepKeepsJobs DEF SaveEvent, Saving
<1>8. ASSUME NEW a \in Analyses, SaveContext(a) PROVE JobsOK' /\ Settled
  BY <1>8, StepKeepsJobs DEF SaveContext, Saving
<1>9. CASE Crash
  BY <1>9, CrashKeepsJobs
<1>10. ASSUME UNCHANGED job PROVE JobsOK' /\ Settled
  BY <1>10 DEF JobsOK, JobOK, Settled, KeepsWork
<1>11. ASSUME NEW k \in Asks, NEW question \in Questions, Retrieve(k, question) \/ RetrieveFails(k, question)
       PROVE  UNCHANGED job
  BY <1>11 DEF Retrieve, RetrieveFails
<1>12. ASSUME NEW k \in Asks, TellNoData(k) \/ ProviderHasNoData(k) \/ TellAnswer(k)
       PROVE  UNCHANGED job
  BY <1>12 DEF TellNoData, ProviderHasNoData, TellAnswer, Tell
<1>13. ASSUME NEW s \in Sends, NEW notice \in Notices,
              Send(s, notice) \/ RefuseSend(s, notice) \/ SendFails(s, notice)
       PROVE  UNCHANGED job
  BY <1>13 DEF Send, RefuseSend, SendFails
<1>14. CASE Done \/ UNCHANGED vars
  BY <1>10, <1>14 DEF Done, vars
<1>15. QED
  BY <1>1, <1>2, <1>3, <1>4, <1>5, <1>6, <1>7, <1>8, <1>9, <1>10, <1>11, <1>12, <1>13, <1>14 DEF Next

-----------------------------------------------------------------------------
(* The journals grow by what is appended to them.                          *)

LEMMA AppendedRecords ==
    ASSUME FilesOK, NEW f \in Files, NEW r \in Record, NEW ok \in BOOLEAN, AppendTo(f, r, ok)
    PROVE  /\ file'[f].records \in {file[f].records, Append(file[f].records, r)}
           /\ \A g \in Files \ {f} : file'[g] = file[g]
<1>1. Write(f, r, ok) /\ \A g \in Files \ {f} : file'[g] = file[g]
  BY AppendedCases DEF AppendTo, FilesOK
<1>2. file'[f].records = file[f].records \/ file'[f].records = Append(file[f].records, r)
  <2> DEFINE new == file'[f]
  <2>1. \/ \E t, d : new = [records |-> Append(file[f].records, r), torn |-> t, decodes |-> d]
        \/ \E t, d : new = [records |-> file[f].records, torn |-> t, decodes |-> d]
        \/ new = file[f]
    BY <1>1 DEF Write
  <2> HIDE DEF new
  <2>2. new.records = file[f].records \/ new.records = Append(file[f].records, r)
    BY <2>1
  <2>3. QED
    BY <2>2 DEF new
<1>3. QED
  BY <1>1, <1>2

LEMMA EntryStays ==
    ASSUME Settled, NEW f, NEW r, EntryOK(f, r)
    PROVE  EntryOK(f, r)'
<1>1. Authored(r) => Authored(r)'
  BY DEF Authored, Settled, KeepsWork
<1>2. QED
  BY <1>1 DEF EntryOK

LEMMA JournalsStay ==
    ASSUME JournalsOK, Settled, \A f \in Files : file'[f].records = file[f].records
    PROVE  JournalsOK'
<1>1. ASSUME NEW f \in Files, NEW i \in DOMAIN file'[f].records
      PROVE  EntryOK(f, file[f].records[i])'
  <2> DEFINE r == file[f].records[i]
  <2>1. EntryOK(f, r)
    BY DEF JournalsOK
  <2>2. file'[f].records[i] = r
    OBVIOUS
  <2> HIDE DEF r
  <2>3. ASSUME NEW q, q = r PROVE EntryOK(f, q)'
    BY <2>1, <2>3, EntryStays
  <2>4. QED
    BY <2>2, <2>3 DEF EntryOK, Authored
<1>2. QED
  BY <1>1 DEF JournalsOK

LEMMA JournalsGrow ==
    ASSUME JournalsOK, FilesOK, Settled, NEW f \in Files, NEW r \in Record, NEW ok \in BOOLEAN,
           AppendTo(f, r, ok), EntryOK(f, r)
    PROVE  JournalsOK'
<1>1. /\ file'[f].records \in {file[f].records, Append(file[f].records, r)}
      /\ \A g \in Files \ {f} : file'[g] = file[g]
  BY AppendedRecords
<1>2. CASE file'[f].records = file[f].records
  BY <1>1, <1>2, JournalsStay
<1>3. CASE file'[f].records = Append(file[f].records, r)
  <2>1. file[f].records \in Seq(Record)
    BY DEF FilesOK, FilesTyped, FileOf
  <2>2. ASSUME NEW g \in Files, NEW i \in DOMAIN file'[g].records
        PROVE  EntryOK(g, file[g].records[i])'
    <3>1. \E q : q = file'[g].records[i] /\ EntryOK(g, q)
      <4>1. CASE g = f /\ i = Len(file[f].records) + 1
        BY <1>3, <2>1, <4>1
      <4>2. CASE g = f /\ i # Len(file[f].records) + 1
        <5> DEFINE s == file[f].records
                   t == file'[f].records
        <5>1. s \in Seq(Record) /\ t = Append(s, r) /\ i \in DOMAIN t /\ i # Len(s) + 1
          BY <1>3, <2>1, <2>2, <4>2
        <5> HIDE DEF s, t
        <5>2. i \in DOMAIN s /\ t[i] = s[i]
          BY <5>1
        <5>3. i \in DOMAIN file[f].records /\ file'[f].records[i] = file[f].records[i]
          BY <5>2 DEF s, t
        <5>4. QED
          BY <4>2, <5>3 DEF JournalsOK
      <4>3. CASE g # f
        BY <1>1, <2>2, <4>3 DEF JournalsOK
      <4>4. QED
        BY <4>1, <4>2, <4>3
    <3>2. PICK q : q = file'[g].records[i] /\ EntryOK(g, q)
      BY <3>1
    <3>3. EntryOK(g, q)'
      BY <3>2, EntryStays
    <3>4. QED
      BY <3>2, <3>3 DEF EntryOK, Authored
  <2>3. QED
    BY <2>2 DEF JournalsOK
<1>4. QED
  BY <1>1, <1>2, <1>3

-----------------------------------------------------------------------------
(* What the chat finds, and what its journal records.                      *)

(* The best fragments come out, at least one if any bears on the question.  *)
LEMMA RetrievedFragments ==
    ASSUME NEW question \in Questions, NEW fragments \in Seq(Fragment)
    PROVE  /\ Retrieved(question, fragments) \in Seq(Fragment)
           /\ \A i \in DOMAIN fragments :
                 Score(question, fragments[i]) > 0 => Retrieved(question, fragments) # <<>>
<1> DEFINE points   == [i \in DOMAIN fragments |-> Score(question, fragments[i])]
           relevant == {i \in DOMAIN fragments : points[i] > 0}
           better   == {p \in relevant \X relevant : \/ points[p[1]] > points[p[2]]
                                                     \/ points[p[1]] = points[p[2]] /\ p[1] < p[2]}
           ranked   == InOrder(relevant, better)
           n        == Cardinality(relevant)
           m        == IF Len(ranked) > TopK THEN TopK ELSE Len(ranked)
           top      == Retrieved(question, fragments)
<1>1. question.score \in [Contents -> Nat] /\ TopK \in Nat \ {0}
  BY KnowledgeAssumption
<1>2. \A i \in DOMAIN fragments : Score(question, fragments[i]) \in Nat
  <2>1. \A i \in DOMAIN fragments : fragments[i] \in Fragment
    OBVIOUS
  <2>2. \A i \in DOMAIN fragments : <<fragments[i].text, fragments[i].n>> \in Contents
    BY <2>1 DEF Fragment
  <2>3. QED
    BY <1>1, <2>2 DEF Score
<1>3. relevant \in SUBSET Nat /\ Len(fragments) \in Nat /\ \A i \in relevant : i <= Len(fragments)
  OBVIOUS
<1>4. IsFiniteSet(relevant)
  BY <1>3, FS_BoundedSetOfNaturals
<1>5. StrictOrder(relevant, better)
  <2>1. \A i \in relevant : points[i] \in Nat
    BY <1>2
  <2> HIDE DEF points, relevant
  <2>2. \A x, y \in relevant :
           <<x, y>> \in better <=> (points[x] > points[y] \/ (points[x] = points[y] /\ x < y))
    OBVIOUS
  <2> HIDE DEF better
  <2>3. \A x \in relevant : <<x, x>> \notin better
    BY <1>3, <2>1, <2>2
  <2>4. \A x, y, z \in relevant : <<x, y>> \in better /\ <<y, z>> \in better => <<x, z>> \in better
    BY <1>3, <2>1, <2>2
  <2>5. \A x, y \in relevant : x = y \/ <<x, y>> \in better \/ <<y, x>> \in better
    <3> SUFFICES ASSUME NEW x \in relevant, NEW y \in relevant
                 PROVE  x = y \/ <<x, y>> \in better \/ <<y, x>> \in better
      OBVIOUS
    <3>1. x \in Nat /\ y \in Nat /\ points[x] \in Nat /\ points[y] \in Nat
      BY <1>3, <2>1
    <3>2. x = y \/ points[x] > points[y] \/ points[y] > points[x]
          \/ (points[x] = points[y] /\ (x < y \/ y < x))
      BY <3>1
    <3>3. /\ points[x] > points[y] \/ (points[x] = points[y] /\ x < y) => <<x, y>> \in better
          /\ points[y] > points[x] \/ (points[y] = points[x] /\ y < x) => <<y, x>> \in better
      BY <2>2
    <3>4. QED
      BY <3>2, <3>3
  <2>6. QED
    BY <2>3, <2>4, <2>5 DEF StrictOrder
<1> HIDE DEF better
<1>6. n \in Nat /\ ranked \in [1..n -> relevant]
  <2> HIDE DEF relevant
  <2>1. QED
    BY <1>4, <1>5, InOrderSorts
<1>7. top = [i \in 1..m |-> fragments[ranked[i]]]
  BY DEF Retrieved, better
<1>8. Len(ranked) = n
  <2> HIDE DEF n, ranked, relevant
  <2>1. ranked \in Seq(relevant)
    BY <1>6
  <2>2. QED
    BY <1>6, <2>1
<1> HIDE DEF ranked
<1>9. m \in 0..n /\ (n > 0 => m > 0)
  <2> HIDE DEF n
  <2>1. QED
    BY <1>1, <1>6, <1>8
<1> HIDE DEF m
<1>10. top \in Seq(Fragment)
  <2>1. \A i \in 1..m : ranked[i] \in relevant
    <3> HIDE DEF n, relevant
    <3>1. QED
      BY <1>6, <1>9
  <2>2. \A i \in 1..m : fragments[ranked[i]] \in Fragment
    <3>1. relevant \subseteq DOMAIN fragments /\ \A i \in DOMAIN fragments : fragments[i] \in Fragment
      OBVIOUS
    <3> HIDE DEF relevant
    <3>2. QED
      BY <2>1, <3>1
  <2>3. m \in Nat
    <3> HIDE DEF n
    <3>1. QED
      BY <1>6, <1>9
  <2>4. QED
    BY <1>7, <2>2, <2>3
<1>11. ASSUME NEW i \in DOMAIN fragments, Score(question, fragments[i]) > 0 PROVE top # <<>>
  <2>1. i \in relevant
    BY <1>11
  <2>2. n # 0
    <3> HIDE DEF relevant
    <3>1. QED
      BY <1>4, <2>1, FS_EmptySet
  <2>3. m > 0 /\ m \in Nat
    <3> HIDE DEF n
    <3>1. QED
      BY <1>6, <1>9, <2>2
  <2>4. 1 \in DOMAIN top
    BY <1>7, <2>3
  <2>5. QED
    BY <2>4
<1>12. QED
  BY <1>10, <1>11

Context == [document : Documents, fragments : Seq(Fragment)]

StoreOK ==
    /\ contexts \in Seq(Context)
    /\ Len(contexts) <= MaxContexts
    /\ \A i, j \in DOMAIN contexts : contexts[i].document = contexts[j].document => i = j

LEMMA KnownTyped ==
    ASSUME FilesOK, JournalsOK, StoreOK, NEW failed \in BOOLEAN, NEW d \in Documents
    PROVE  KnownFragments(d, ReadOf("chunks", failed)) \in Seq(Fragment)
<1>1. Latest(ReadOf("chunks", failed), d) \in Seq(Fragment)
  BY ReadChunks
<1>2. ContextOf(d) \in Seq(Fragment)
  <2> DEFINE at == About(contexts, d)
  <2>1. CASE at = {}
    BY <2>1 DEF ContextOf
  <2>2. CASE at # {}
    <3>1. (CHOOSE i \in at : TRUE) \in at /\ at \subseteq DOMAIN contexts
      BY <2>2 DEF About
    <3>2. contexts[CHOOSE i \in at : TRUE] \in Context
      BY <3>1 DEF StoreOK
    <3>3. QED
      BY <2>2, <3>2 DEF ContextOf, Context
  <2>3. QED
    BY <2>1, <2>2
<1>3. QED
  BY <1>1, <1>2 DEF KnownFragments

ChatOK(c) == c \in Chat /\ (c.pc \in {"asking", "noData"} => c.question \in Questions)

ChatsOK == chat \in [Asks -> Chat] /\ \A k \in Asks : ChatOK(chat[k])

LEMMA OneChat ==
    ASSUME ChatsOK, NEW k \in Asks, NEW new, ChatOK(new), chat' = [chat EXCEPT ![k] = new]
    PROVE  ChatsOK'
<1>1. \A j \in Asks : chat'[j] = IF j = k THEN new ELSE chat[j]
  BY DEF ChatsOK
<1>2. new \in Chat /\ \A j \in Asks : ChatOK(chat'[j])
  BY <1>1 DEF ChatsOK, ChatOK
<1>3. chat' \in [Asks -> Chat]
  BY <1>2 DEF ChatsOK
<1>4. QED
  BY <1>2, <1>3 DEF ChatsOK

LEMMA FoundKeepsChats ==
    ASSUME ChatsOK, NEW k \in Asks, NEW question \in Questions, NEW fragments \in Seq(Fragment),
           Found(k, question, fragments)
    PROVE  ChatsOK'
<1> DEFINE top == Retrieved(question, fragments)
           pc  == IF top = <<>> THEN "noData" ELSE "asking"
           new == [pc |-> pc, sources |-> <<>>, question |-> question, found |-> top]
<1>1. top \in Seq(Fragment)
  BY RetrievedFragments
<1>2. pc \in {"noData", "asking"}
  OBVIOUS
<1>3. chat' = [chat EXCEPT ![k] = new]
  BY DEF Found
<1> HIDE DEF top, pc
<1>4. ChatOK(new)
  BY <1>1, <1>2 DEF ChatOK, Chat
<1> HIDE DEF new
<1>5. QED
  BY <1>3, <1>4, OneChat

(* What is told of is a known document, or none.                           *)
LEMMA AboutTyped ==
    ASSUME NEW question \in Questions, NEW sources \in Seq(Fragment)
    PROVE  AboutDocument(question, sources) \in Documents \cup {None}
<1>1. question.document \in Documents \cup {None} /\ question.own \in Seq(Fragment)
  BY KnowledgeAssumption
<1>2. \A s \in Seq(Fragment) : s # <<>> => s[1] \in Fragment
  OBVIOUS
<1>3. \A s \in Seq(Fragment) : s # <<>> => s[1].document \in Documents
  BY <1>2 DEF Fragment
<1>4. QED
  BY <1>1, <1>3 DEF AboutDocument

LEMMA RecordTyped ==
    ASSUME NEW by \in Analyses \cup Asks \cup Sends, NEW document \in Documents \cup {None},
           NEW text \in Texts \cup {None}, NEW n \in Nat
    PROVE  RecordOf(by, document, text, n) \in Record
BY DEF RecordOf, Record

LEMMA TellKeeps ==
    ASSUME FilesOK, ChatsOK, JournalsOK, Settled, NEW k \in Asks, chat[k].pc \in {"asking", "noData"},
           NEW sources \in Seq(Fragment), Tell(k, sources)
    PROVE  FilesOK' /\ ChatsOK' /\ JournalsOK'
<1> DEFINE about == AboutDocument(chat[k].question, sources)
           r == RecordOf(k, about, None, 0)
<1>1. PICK ok \in BOOLEAN : AppendTo("chats", r, ok) /\ Faulty(~ok)
  BY DEF Tell
<1>2. about \in Documents \cup {None}
  BY AboutTyped DEF ChatsOK, ChatOK
<1>3. r \in Record
  <2> HIDE DEF about
  <2>1. QED
    BY <1>2, RecordTyped
<1> HIDE DEF r
<1>4. "chats" \in Files /\ crashes' = crashes /\ EntryOK("chats", r)
  BY DEF Files, Tell, EntryOK
<1>5. FilesOK' /\ JournalsOK'
  BY <1>1, <1>3, <1>4, AppendKeepsFiles, JournalsGrow
<1>6. ChatsOK'
  <2> DEFINE new == [NoChat EXCEPT !.pc = "done", !.sources = sources]
  <2>1. chat' = [chat EXCEPT ![k] = new]
    BY DEF Tell
  <2>2. new \in Chat /\ new.pc = "done"
    <3>1. NoChat \in Chat
      BY DEF NoChat, Chat
    <3>2. ASSUME NEW c \in Chat
          PROVE  LET told == [c EXCEPT !.pc = "done", !.sources = sources]
                 IN  told \in Chat /\ told.pc = "done"
      BY DEF Chat
    <3>3. QED
      BY <3>1, <3>2
  <2> HIDE DEF new
  <2>3. QED
    BY <2>1, <2>2, OneChat DEF ChatOK
<1>7. QED
  BY <1>5, <1>6

LEMMA TellingKeeps ==
    ASSUME FilesOK, ChatsOK, JournalsOK, Settled, NEW k \in Asks,
           TellNoData(k) \/ ProviderHasNoData(k) \/ TellAnswer(k)
    PROVE  FilesOK' /\ ChatsOK' /\ JournalsOK'
<1>1. CASE TellNoData(k) \/ ProviderHasNoData(k)
  <2>1. <<>> \in Seq(Fragment)
    OBVIOUS
  <2>2. QED
    BY <1>1, <2>1, TellKeeps DEF TellNoData, ProviderHasNoData
<1>2. CASE TellAnswer(k)
  <2> DEFINE found == chat[k].found
             named(cited) == Picked(found, {i \in DOMAIN found : found[i].n \in cited})
  <2>1. chat[k].pc = "asking" /\ \E cited : Tell(k, IF named(cited) # <<>> THEN named(cited) ELSE found)
    BY <1>2 DEF TellAnswer
  <2>2. found \in Seq(Fragment)
    BY DEF ChatsOK, Chat
  <2>3. ASSUME NEW cited PROVE named(cited) \in Seq(Fragment)
    <3> HIDE DEF found
    <3>1. QED
      BY <2>2, PickedItems
  <2>4. PICK sources \in Seq(Fragment) : Tell(k, sources)
    <3> HIDE DEF found, named
    <3>1. QED
      BY <2>1, <2>2, <2>3
  <2>5. QED
    BY <2>1, <2>4, TellKeeps
<1>3. QED
  BY <1>1, <1>2

-----------------------------------------------------------------------------
(* The context store.                                                      *)

LEMMA SavingKeepsStore ==
    ASSUME JobsOK, StoreOK, NEW a \in Analyses, SaveContext(a)
    PROVE  StoreOK'
<1> DEFINE d     == job[a].document
           rest  == DOMAIN contexts \ About(contexts, d)
           kept  == Picked(contexts, rest)
           new   == [document |-> d, fragments |-> FragmentsOf(d, job[a].text)]
           store == Append(kept, new)
           n     == Cardinality(rest)
<1>1. d \in Documents /\ job[a].text \in Texts
  BY DEF JobsOK, JobOK, SaveContext, Saving
<1>2. new \in Context
  <2>1. Count[job[a].text] \in Nat
    BY <1>1, KnowledgeAssumption
  <2>2. \A i \in 1..Count[job[a].text] : [document |-> d, n |-> i, text |-> job[a].text] \in Fragment
    <3> DEFINE t == job[a].text
    <3>1. \A i \in 1..Count[t] : <<t, i>> \in Contents
      BY <1>1 DEF Contents
    <3> HIDE DEF t, d
    <3>2. QED
      BY <1>1, <2>1, <3>1 DEF Fragment, t
  <2>3. FragmentsOf(d, job[a].text) \in Seq(Fragment)
    BY <2>1, <2>2 DEF FragmentsOf
  <2>4. QED
    BY <1>1, <2>3 DEF Context
<1>3. /\ contexts \in Seq(Context) /\ Len(contexts) \in Nat /\ Len(contexts) <= MaxContexts
      /\ MaxContexts \in Nat \ {0} /\ rest \in SUBSET DOMAIN contexts
      /\ \A i, j \in DOMAIN contexts : contexts[i].document = contexts[j].document => i = j
  BY KnowledgeAssumption DEF StoreOK
<1>4. contexts' = Evicted(store)
  BY DEF SaveContext
<1>5. \A i \in rest : contexts[i].document # d
  BY DEF About
<1> HIDE DEF d, rest, new
<1>6. n \in Nat /\ n <= Len(contexts)
  <2>1. DOMAIN contexts = 1..Len(contexts)
    BY <1>3
  <2>2. IsFiniteSet(1..Len(contexts)) /\ Cardinality(1..Len(contexts)) = Len(contexts)
    <3> DEFINE m == Len(contexts)
    <3>1. m \in Nat
      BY <1>3
    <3> HIDE DEF m
    <3>2. IsFiniteSet(1..m) /\ Cardinality(1..m) = IF 1 > m THEN 0 ELSE m - 1 + 1
      BY <3>1, FS_Interval
    <3>3. QED
      BY <3>1, <3>2 DEF m
  <2>3. QED
    BY <1>3, <2>1, <2>2, FS_Subset, FS_CardinalityType
<1>7. /\ kept \in Seq(Context) /\ Len(kept) = n
      /\ \E pos \in [1..n -> rest] : /\ \A j, k \in 1..n : j < k => pos[j] < pos[k]
                                   /\ \A k \in 1..n : kept[k] = contexts[pos[k]]
  BY <1>3, PickedInOrder
<1> HIDE DEF n, kept
<1>8. /\ \A k \in 1..n : kept[k].document # d
      /\ \A j, k \in 1..n : kept[j].document = kept[k].document => j = k
  <2>1. PICK pos \in [1..n -> rest] : /\ \A j, k \in 1..n : j < k => pos[j] < pos[k]
                                      /\ \A k \in 1..n : kept[k] = contexts[pos[k]]
    BY <1>7
  <2>2. \A k \in 1..n : pos[k] \in rest /\ pos[k] \in DOMAIN contexts
    BY <1>3, <2>1
  <2>3. ASSUME NEW j \in 1..n, NEW k \in 1..n, kept[j].document = kept[k].document PROVE j = k
    <3>1. pos[j] = pos[k]
      BY <1>3, <2>1, <2>2, <2>3
    <3>2. pos[j] \in Nat /\ pos[k] \in Nat
      BY <1>3, <2>2
    <3>3. ~(j < k) /\ ~(k < j)
      BY <2>1, <3>1, <3>2
    <3>4. QED
      BY <1>6, <3>3
  <2>4. QED
    BY <1>5, <2>1, <2>2, <2>3
<1>9. /\ store \in Seq(Context) /\ Len(store) = n + 1 /\ DOMAIN store = 1..(n + 1)
      /\ \A k \in 1..n : store[k] = kept[k]
      /\ store[n + 1] = new /\ new.document = d
  BY <1>2, <1>6, <1>7 DEF new
<1> HIDE DEF store
<1>10. \A j, k \in 1..(n + 1) : store[j].document = store[k].document => j = k
  BY <1>6, <1>8, <1>9
<1>11. CASE Len(store) > MaxContexts
  <2> DEFINE tail == Tail(store)
  <2>1. contexts' = tail
    BY <1>4, <1>11 DEF Evicted
  <2>2. /\ tail \in Seq(Context) /\ Len(tail) = n /\ DOMAIN tail = 1..n
        /\ \A k \in 1..n : tail[k] = store[k + 1]
    BY <1>6, <1>9
  <2> HIDE DEF tail
  <2>3. \A j, k \in 1..n : tail[j].document = tail[k].document => j = k
    BY <1>6, <1>10, <2>2
  <2>4. QED
    BY <1>3, <1>6, <2>1, <2>2, <2>3 DEF StoreOK
<1>12. CASE ~(Len(store) > MaxContexts)
  <2>1. contexts' = store
    BY <1>4, <1>12 DEF Evicted
  <2>2. QED
    BY <1>3, <1>6, <1>9, <1>10, <1>12, <2>1 DEF StoreOK
<1>13. QED
  BY <1>11, <1>12

-----------------------------------------------------------------------------
(* What a message is checked against.                                      *)

\* An analysis of that document or event lets a message go to that client.
Vouches(j, a, notice) ==
    /\ j.pc # "idle"
    /\ j.document = notice.document \/ a = notice.event
    /\ j.text \in Texts \ Neutral
    /\ notice.client \in Listed[j.text]

\* A sent message that was checked, and one that was not.
Vouched(outcome, jobs, mishaps) ==
    outcome.status = "sent" =>
        /\ ~outcome.blind => \E a \in Analyses : Vouches(jobs[a], a, outcome.notice)
        /\ outcome.blind => ~outcome.known \/ mishaps > 0

SendsOK ==
    /\ sent \in [Sends -> Outcome]
    /\ \A s \in Sends : Vouched(sent[s], job, faults + crashes)

(* Nothing that was found is a record of the journal.                      *)
LEMMA LatestIsRecord ==
    ASSUME NEW records \in Seq(Record), NEW at \in SUBSET DOMAIN records
    PROVE  /\ at = {} => LatestOf(records, at, None) = None
           /\ at # {} => /\ LatestOf(records, at, None) # None
                         /\ \E i \in at : LatestOf(records, at, None) = records[i]
<1>1. CASE at = {}
  BY <1>1 DEF LatestOf
<1>2. CASE at # {}
  <2>1. Max(at) \in at
    BY <1>2, MaxPosition
  <2>2. LatestOf(records, at, None) = records[Max(at)]
    BY <1>2 DEF LatestOf
  <2>3. records[Max(at)] \in Record
    BY <2>1
  <2>4. None \notin Record
    BY KnowledgeAssumption
  <2>5. QED
    BY <1>2, <2>1, <2>2, <2>3, <2>4
<1>3. QED
  BY <1>1, <1>2

(* A message is checked against what an analysis of its document or event   *)
(* left, and is not checked only if no document record was read.           *)
LEMMA BasisIsAnalysis ==
    ASSUME NEW events \in Seq(Record), NEW documents \in Seq(Record), NEW notice \in Notices
    PROVE  LET basis == Basis(notice, events, documents)
           IN  /\ basis # None =>
                     \E r \in Record : /\ basis = r
                                       /\ r.by = notice.event \/ r.document = notice.document
                                       /\ \/ \E i \in DOMAIN events : events[i] = r
                                          \/ \E i \in DOMAIN documents : documents[i] = r
               /\ basis = None => \A i \in DOMAIN documents : documents[i].document # notice.document
<1> DEFINE byId  == {i \in DOMAIN events : events[i].by = notice.event}
           ofDoc == About(events, notice.document)
           docs  == About(documents, notice.document)
           one   == LatestOf(events, byId, None)
           other == LatestOf(events, ofDoc, None)
           last  == LatestOf(documents, docs, None)
           event == EventFor(notice, events)
           basis == Basis(notice, events, documents)
<1>1. /\ byId \in SUBSET DOMAIN events /\ ofDoc \in SUBSET DOMAIN events /\ docs \in SUBSET DOMAIN documents
      /\ \A i \in byId : events[i].by = notice.event
      /\ \A i \in ofDoc : events[i].document = notice.document
      /\ \A i \in DOMAIN documents : i \in docs <=> documents[i].document = notice.document
  BY DEF About
<1>2. event = one \/ event = other
  BY DEF EventFor
<1>3. basis = IF event # None THEN event ELSE last
  BY DEF Basis
<1> HIDE DEF byId, ofDoc, docs
<1>4. one # None => \E i \in byId : one = events[i]
  BY <1>1, LatestIsRecord
<1>5. other # None => \E i \in ofDoc : other = events[i]
  BY <1>1, LatestIsRecord
<1>6. /\ last # None => \E i \in docs : last = documents[i]
      /\ last = None => docs = {}
  BY <1>1, LatestIsRecord
<1> HIDE DEF one, other, last, event, basis
<1>7. basis = None => \A i \in DOMAIN documents : documents[i].document # notice.document
  BY <1>1, <1>3, <1>6
<1>8. ASSUME basis # None
      PROVE  \E r \in Record : /\ basis = r
                               /\ r.by = notice.event \/ r.document = notice.document
                               /\ \/ \E i \in DOMAIN events : events[i] = r
                                  \/ \E i \in DOMAIN documents : documents[i] = r
  <2>1. CASE event # None
    <3>1. PICK i \in DOMAIN events : /\ event = events[i]
                                     /\ events[i].by = notice.event \/ events[i].document = notice.document
      BY <1>1, <1>2, <1>4, <1>5, <2>1
    <3>2. events[i] \in Record
      OBVIOUS
    <3>3. QED
      BY <1>3, <2>1, <3>1, <3>2
  <2>2. CASE event = None
    <3>1. PICK i \in DOMAIN documents : /\ basis = documents[i]
                                        /\ documents[i].document = notice.document
      BY <1>1, <1>3, <1>6, <1>8, <2>2
    <3>2. documents[i] \in Record
      OBVIOUS
    <3>3. QED
      BY <3>1, <3>2
  <2>3. QED
    BY <2>1, <2>2
<1>9. QED
  BY <1>7, <1>8 DEF basis

(* A message that was let through without a check finds no record of a      *)
(* document that was known, unless something failed before.                *)
LEMMA KnownIsRead ==
    ASSUME FilesOK, JournalsOK, faults = 0, crashes = 0, NEW d,
           NEW r \in saved["documents"], r.document = d
    PROVE  \E k \in DOMAIN ReadOf("documents", FALSE) : ReadOf("documents", FALSE)[k].document = d
<1> DEFINE s      == file["documents"].records
           wholes == {i \in DOMAIN s : s[i].whole}
<1>1. "documents" \in Files
  BY DEF Files
<1>2. s \in Seq(Record) /\ tears["documents"] \in Nat
  BY <1>1 DEF FilesOK, FilesTyped, FileOf
<1>3. Missing("documents") = {}
  <2> DEFINE c == Cardinality(Missing("documents"))
  <2>1. /\ IsFiniteSet(saved["documents"]) /\ Glue("documents") \in {0, 1}
        /\ c + Glue("documents") <= tears["documents"] /\ tears["documents"] <= faults + crashes
    BY <1>1 DEF FilesOK, Damage, Glue
  <2>2. IsFiniteSet(Missing("documents"))
    BY <2>1, FS_Subset DEF Missing
  <2>3. c \in Nat
    BY <2>2, FS_CardinalityType
  <2> HIDE DEF c
  <2>4. c = 0
    BY <1>2, <2>1, <2>3
  <2>5. QED
    BY <2>2, <2>4, FS_EmptySet DEF c
<1>4. PICK i \in DOMAIN s : s[i] = r
  BY <1>3 DEF Missing, ToSet
<1>5. s[i].whole
  BY <1>1 DEF JournalsOK, EntryOK
<1>6. ReadOf("documents", FALSE) = Picked(s, wholes)
  BY DEF ReadOf, Readable
<1>7. wholes \in SUBSET DOMAIN s /\ s \in Seq(Record)
  BY <1>2
<1>8. i \in wholes
  BY <1>4, <1>5
<1> HIDE DEF s, wholes
<1>9. \A j \in wholes : \E k \in DOMAIN Picked(s, wholes) : Picked(s, wholes)[k] = s[j]
  BY <1>7, EachPicked
<1>10. PICK k \in DOMAIN Picked(s, wholes) : Picked(s, wholes)[k] = s[i]
  BY <1>8, <1>9
<1>11. QED
  BY <1>4, <1>6, <1>10

(* An outcome stays good while jobs keep their work and mishaps add up.     *)
LEMMA VouchedStays ==
    ASSUME Settled, NEW outcome, NEW m \in Nat, NEW n \in Nat, m <= n, Vouched(outcome, job, m)
    PROVE  Vouched(outcome, job', n)
BY DEF Vouched, Vouches, Settled, KeepsWork

LEMMA SendsStay ==
    ASSUME SendsOK, Settled, faults + crashes \in Nat, faults' + crashes' \in Nat,
           faults + crashes <= faults' + crashes', UNCHANGED sent
    PROVE  SendsOK'
<1>1. \A s \in Sends : Vouched(sent[s], job', faults' + crashes')
  BY VouchedStays DEF SendsOK
<1>2. QED
  BY <1>1 DEF SendsOK

LEMMA OneSend ==
    ASSUME SendsOK, NEW s \in Sends, NEW new \in Outcome, Vouched(new, job', faults' + crashes'), Settled,
           faults + crashes \in Nat, faults' + crashes' \in Nat, faults + crashes <= faults' + crashes',
           sent' = [sent EXCEPT ![s] = new]
    PROVE  SendsOK'
<1>1. \A t \in Sends : sent'[t] = IF t = s THEN new ELSE sent[t]
  BY DEF SendsOK
<1>2. ASSUME NEW t \in Sends PROVE Vouched(sent'[t], job', faults' + crashes')
  <2>1. CASE t = s
    BY <1>1, <2>1
  <2>2. CASE t # s
    BY <1>1, <2>2, VouchedStays DEF SendsOK
  <2>3. QED
    BY <2>1, <2>2
<1>3. sent' \in [Sends -> Outcome]
  BY DEF SendsOK
<1>4. QED
  BY <1>2, <1>3 DEF SendsOK

(* What goes out was checked against what an analysis found, or was let     *)
(* through because nothing was known.                                      *)
LEMMA SendingKeeps ==
    ASSUME FilesOK, JobsOK, JournalsOK, SendsOK, Settled, UNCHANGED job,
           NEW s \in Sends, NEW notice \in Notices, Send(s, notice)
    PROVE  FilesOK' /\ JournalsOK' /\ SendsOK'
<1>1. PICK unread \in SUBSET {"events", "documents"}, ok \in BOOLEAN :
          LET basis == Basis(notice, ReadOf("events", "events" \in unread),
                                     ReadOf("documents", "documents" \in unread))
          IN  /\ Faulty(unread # {} \/ ~ok)
              /\ IF Permitted(notice, basis)
                 THEN /\ sent' = [sent EXCEPT ![s] =
                             [status |-> "sent", notice |-> notice, blind |-> basis = None,
                              known  |-> \E r \in saved["documents"] : r.document = notice.document]]
                      /\ AppendTo("notifications", RecordOf(s, notice.document, None, 0), ok)
                 ELSE /\ ok
                      /\ sent' = [sent EXCEPT ![s] = NotSent("refused")]
                      /\ UNCHANGED <<file, saved, tears>>
  BY DEF Send
<1> DEFINE failed    == unread # {} \/ ~ok
           events    == ReadOf("events", "events" \in unread)
           documents == ReadOf("documents", "documents" \in unread)
           basis     == Basis(notice, events, documents)
           r         == RecordOf(s, notice.document, None, 0)
           known     == \E q \in saved["documents"] : q.document = notice.document
           new       == [status |-> "sent", notice |-> notice, blind |-> basis = None, known |-> known]
<1>2. Faulty(failed) /\ failed \in BOOLEAN /\ (~ok => failed) /\ crashes' = crashes
  BY <1>1 DEF Send
<1>3. "events" \in Files /\ "documents" \in Files /\ "notifications" \in Files
  BY DEF Files
<1>4. r \in Record /\ EntryOK("notifications", r)
  <2>1. notice.document \in Documents
    BY KnowledgeAssumption
  <2> HIDE DEF r
  <2>2. r \in Record
    BY <2>1, RecordTyped DEF r
  <2>3. QED
    BY <2>2 DEF EntryOK
<1>5. /\ faults \in Nat /\ crashes \in Nat /\ faults' \in Nat /\ faults' >= faults
      /\ failed => faults' = faults + 1
      /\ faults + crashes \in Nat /\ faults' + crashes' \in Nat /\ faults + crashes <= faults' + crashes'
      /\ failed => faults' + crashes' > 0
      /\ ~(faults = 0 /\ crashes = 0) => faults' + crashes' > 0
  <2>1. faults \in Nat /\ crashes \in Nat /\ faults + crashes <= MaxMishaps
    BY DEF FilesOK, FilesTyped
  <2> HIDE DEF failed
  <2>2. faults' \in Nat /\ faults' = IF failed THEN faults + 1 ELSE faults
    BY <1>2, <2>1, FaultsCounted
  <2>3. QED
    BY <1>2, <2>1, <2>2
<1>6. /\ events \in Seq(Record) /\ documents \in Seq(Record)
      /\ \A k \in DOMAIN events : \E i \in DOMAIN file["events"].records :
            events[k] = file["events"].records[i]
      /\ \A k \in DOMAIN documents : \E i \in DOMAIN file["documents"].records :
            documents[k] = file["documents"].records[i]
  <2> DEFINE b == "events" \in unread
             c == "documents" \in unread
  <2>1. b \in BOOLEAN /\ c \in BOOLEAN
    OBVIOUS
  <2> HIDE DEF b, c
  <2>2. ASSUME NEW f \in Files, NEW u \in BOOLEAN
        PROVE  /\ ReadOf(f, u) \in Seq(Record)
               /\ \A k \in DOMAIN ReadOf(f, u) : \E i \in DOMAIN file[f].records :
                     ReadOf(f, u)[k] = file[f].records[i]
    <3> DEFINE read == ReadOf(f, u)
    <3>1. /\ read \in Seq(Record)
          /\ \A k \in DOMAIN read : \E i \in DOMAIN file[f].records :
                file[f].records[i].whole /\ read[k] = file[f].records[i]
      BY <2>2, ReadRecords, Zenon
    <3> HIDE DEF read
    <3>2. \A k \in DOMAIN read : \E i \in DOMAIN file[f].records : read[k] = file[f].records[i]
      BY ONLY <3>1
    <3>3. QED
      BY <3>1, <3>2 DEF read
  <2>3. /\ ReadOf("events", b) \in Seq(Record) /\ ReadOf("documents", c) \in Seq(Record)
        /\ \A k \in DOMAIN ReadOf("events", b) : \E i \in DOMAIN file["events"].records :
              ReadOf("events", b)[k] = file["events"].records[i]
        /\ \A k \in DOMAIN ReadOf("documents", c) : \E i \in DOMAIN file["documents"].records :
              ReadOf("documents", c)[k] = file["documents"].records[i]
    BY <1>3, <2>1, <2>2, Zenon
  <2>4. QED
    BY <2>3, Zenon DEF b, c
<1>7. CASE ~Permitted(notice, basis)
  <2>1. sent' = [sent EXCEPT ![s] = NotSent("refused")] /\ UNCHANGED <<file, saved, tears>>
    BY <1>1, <1>7
  <2>2. FilesOK'
    <3> HIDE DEF failed
    <3>1. QED
      BY <1>2, <2>1, FilesAlone
  <2>3. JournalsOK'
    BY <2>1, JournalsStay
  <2>4. NotSent("refused") \in Outcome /\ Vouched(NotSent("refused"), job', faults' + crashes')
    BY DEF NotSent, Outcome, Vouched
  <2>5. SendsOK'
    BY <1>5, <2>1, <2>4, OneSend
  <2>6. QED
    BY <2>2, <2>3, <2>5
<1>8. CASE Permitted(notice, basis)
  <2>1. sent' = [sent EXCEPT ![s] = new] /\ AppendTo("notifications", r, ok)
    BY <1>1, <1>8
  <2>2. FilesOK' /\ JournalsOK'
    <3> HIDE DEF failed, r
    <3>1. QED
      BY <1>2, <1>3, <1>4, <2>1, AppendKeepsFiles, JournalsGrow
  <2>3. ASSUME basis # None
        PROVE  \E a \in Analyses : Vouches(job[a], a, notice)
    <3> HIDE DEF events, documents
    <3>1. PICK q \in Record : /\ basis = q
                              /\ q.by = notice.event \/ q.document = notice.document
                              /\ \/ \E i \in DOMAIN events : events[i] = q
                                 \/ \E i \in DOMAIN documents : documents[i] = q
      BY <1>6, <2>3, BasisIsAnalysis
    <3>2. \/ \E i \in DOMAIN file["events"].records : q = file["events"].records[i]
          \/ \E i \in DOMAIN file["documents"].records : q = file["documents"].records[i]
      BY <1>6, <3>1
    <3>3. EntryOK("events", q) \/ EntryOK("documents", q)
      BY <1>3, <3>2 DEF JournalsOK
    <3>4. Authored(q)
      BY <3>3 DEF EntryOK
    <3> HIDE DEF basis
    <3>5. q.text \notin Neutral /\ notice.draftedFor \in Listed[q.text] /\ notice.draftedFor = notice.client
      BY <1>8, <2>3, <3>1 DEF Permitted, Send
    <3>6. QED
      BY <3>1, <3>4, <3>5 DEF Authored, Vouches
  <2>4. ASSUME basis = None, known PROVE faults' + crashes' > 0
    <3>1. CASE failed
      BY <1>5, <3>1
    <3>2. CASE ~failed
      <4>1. documents = ReadOf("documents", FALSE)
        BY <3>2 DEF ReadOf
      <4>2. \A i \in DOMAIN documents : documents[i].document # notice.document
        <5> HIDE DEF events, documents
        <5>1. QED
          BY <1>6, <2>4, BasisIsAnalysis
      <4>3. ~(faults = 0 /\ crashes = 0)
        BY <2>4, <4>1, <4>2, KnownIsRead
      <4>4. QED
        BY <1>5, <4>3
    <3>3. QED
      BY <3>1, <3>2
  <2>5. new \in Outcome
    <3> DEFINE b == (basis = None)
    <3>1. b \in BOOLEAN /\ known \in BOOLEAN
      OBVIOUS
    <3>2. new = [status |-> "sent", notice |-> notice, blind |-> b, known |-> known]
      OBVIOUS
    <3> HIDE DEF b, known, new
    <3>3. QED
      BY <3>1, <3>2 DEF Outcome
  <2>6. Vouched(new, job', faults' + crashes')
    <3> DEFINE b == (basis = None)
    <3>1. new.status = "sent" /\ new.notice = notice /\ new.blind = b /\ new.known = known
      OBVIOUS
    <3> HIDE DEF new, known
    <3>2. ~b => \E a \in Analyses : Vouches(job'[a], a, notice)
      BY <2>3
    <3>3. b => ~known \/ faults' + crashes' > 0
      BY <2>4
    <3> HIDE DEF b
    <3>4. QED
      BY <3>1, <3>2, <3>3 DEF Vouched
  <2>7. SendsOK'
    <3> HIDE DEF new
    <3>1. QED
      BY <1>5, <2>1, <2>5, <2>6, OneSend
  <2>8. QED
    BY <2>2, <2>7
<1>9. QED
  BY <1>7, <1>8

-----------------------------------------------------------------------------
(* Every step.                                                             *)

\* What goes wrong adds up.
MishapsAdd ==
    /\ faults + crashes \in Nat /\ faults' + crashes' \in Nat
    /\ faults + crashes <= faults' + crashes'

RestOK == loop \in Analyses \cup Asks \cup {None} /\ overlapped \subseteq Documents

KnowledgeInv == FilesOK /\ JobsOK /\ JournalsOK /\ ChatsOK /\ StoreOK /\ SendsOK /\ RestOK

LEMMA FaultsAdd ==
    ASSUME FilesOK, NEW failed \in BOOLEAN, Faulty(failed), crashes' = crashes
    PROVE  MishapsAdd
<1>1. faults \in Nat /\ crashes \in Nat /\ faults + crashes <= MaxMishaps
  BY DEF FilesOK, FilesTyped
<1>2. faults' \in Nat /\ faults' = IF failed THEN faults + 1 ELSE faults
  BY <1>1, FaultsCounted
<1>3. QED
  BY <1>1, <1>2 DEF MishapsAdd

(* A step that writes nothing.                                             *)
LEMMA QuietKeeps ==
    ASSUME FilesOK, JournalsOK, Settled, UNCHANGED <<file, saved, tears>>,
           NEW failed \in BOOLEAN, Faulty(failed), crashes' = crashes
    PROVE  FilesOK' /\ JournalsOK' /\ MishapsAdd
<1>1. FilesOK' /\ MishapsAdd
  BY FilesAlone, FaultsAdd
<1>2. JournalsOK'
  BY JournalsStay
<1>3. QED
  BY <1>1, <1>2

(* What an analysis writes is what it analysed.                            *)
LEMMA WritingKeeps ==
    ASSUME FilesOK, JobsOK, JournalsOK, Settled, NEW a \in Analyses,
           SaveDocument(a) \/ SaveChunk(a) \/ SaveEvent(a)
    PROVE  FilesOK' /\ JournalsOK' /\ MishapsAdd
<1> DEFINE d == job[a].document
           t == job[a].text
<1>1. /\ d \in Documents /\ t \in Texts /\ job[a].pc # "idle" /\ crashes' = crashes
      /\ {"documents", "chunks", "events"} \subseteq Files
  BY DEF JobsOK, JobOK, Saving, SaveDocument, SaveChunk, SaveEvent, Files
<1>2. ASSUME NEW f \in Files, NEW r \in Record, EntryOK(f, r),
             \E ok \in BOOLEAN : AppendTo(f, r, ok) /\ Faulty(~ok)
      PROVE  FilesOK' /\ JournalsOK' /\ MishapsAdd
  <2>1. PICK ok \in BOOLEAN : AppendTo(f, r, ok) /\ Faulty(~ok)
    BY <1>2
  <2>2. FilesOK'
    BY <1>1, <2>1, AppendKeepsFiles
  <2>3. JournalsOK'
    BY <1>2, <2>1, JournalsGrow
  <2>4. MishapsAdd
    BY <1>1, <2>1, FaultsAdd
  <2>5. QED
    BY <2>2, <2>3, <2>4
<1>3. ASSUME NEW n \in Nat
      PROVE  /\ RecordOf(a, d, t, n) \in Record
             /\ RecordOf(a, d, t, n).document = d /\ RecordOf(a, d, t, n).text = t
             /\ RecordOf(a, d, t, n).n = n /\ RecordOf(a, d, t, n).by = a
             /\ RecordOf(a, d, t, n).whole = (<<t, n>> \notin Split)
  <2>1. RecordOf(a, d, t, n) \in Record
    BY <1>1, RecordTyped
  <2>2. QED
    BY <2>1 DEF RecordOf
<1>4. CASE SaveDocument(a)
  <2> DEFINE r == RecordOf(a, d, t, 0)
  <2>1. \E ok \in BOOLEAN : AppendTo("documents", r, ok) /\ Faulty(~ok)
    BY <1>4 DEF SaveDocument
  <2>2. <<t, 0>> \notin Split
    <3>1. <<t, 0>> \notin Contents
      BY DEF Contents
    <3>2. QED
      BY <3>1, KnowledgeAssumption
  <2>3. r \in Record /\ r.document = d /\ r.text = t /\ r.by = a /\ r.whole
    BY <1>3, <2>2
  <2> HIDE DEF r
  <2>4. EntryOK("documents", r)
    BY <1>1, <2>3 DEF EntryOK, Authored
  <2>5. QED
    BY <1>1, <1>2, <2>1, <2>3, <2>4
<1>5. CASE SaveChunk(a)
  <2> DEFINE n == job[a].counted + 1
             r == RecordOf(a, d, t, n)
  <2>1. n \in Nat /\ <<t, n>> \in Contents
    <3>1. /\ job[a].counted \in Nat /\ job[a].counted < Count[t] /\ Count[t] \in Nat
      BY <1>1, <1>5, KnowledgeAssumption DEF SaveChunk, JobsOK, JobOK, Job
    <3>2. n \in 1..Count[t]
      BY <3>1
    <3>3. QED
      BY <1>1, <3>2 DEF Contents
  <2>2. \/ UNCHANGED <<file, saved, tears, faults>>
        \/ \E ok \in BOOLEAN : AppendTo("chunks", r, ok) /\ Faulty(~ok)
    BY <1>5 DEF SaveChunk
  <2> HIDE DEF n
  <2>3. r \in Record /\ r.document = d /\ r.text = t /\ r.n = n
    BY <1>3, <2>1
  <2> HIDE DEF r
  <2>4. EntryOK("chunks", r)
    BY <1>1, <2>1, <2>3 DEF EntryOK
  <2>5. CASE UNCHANGED <<file, saved, tears, faults>>
    <3>1. Faulty(FALSE)
      BY <2>5 DEF Faulty
    <3>2. QED
      BY <1>1, <2>5, <3>1, QuietKeeps
  <2>6. QED
    BY <1>1, <1>2, <2>2, <2>3, <2>4, <2>5
<1>6. CASE SaveEvent(a)
  <2> DEFINE r == EventRecord(a)
             whole == \A n \in 1..Count[t] : <<t, n>> \notin Split
  <2>1. \E ok \in BOOLEAN : AppendTo("events", r, ok) /\ Faulty(~ok)
    BY <1>6 DEF SaveEvent
  <2>2. r = [RecordOf(a, d, t, 0) EXCEPT !.whole = whole] /\ whole \in BOOLEAN
    BY DEF EventRecord
  <2> HIDE DEF r, whole
  <2>3. r \in Record /\ r.document = d /\ r.text = t /\ r.by = a
    <3> DEFINE q == RecordOf(a, d, t, 0)
    <3>1. q \in Record /\ q.document = d /\ q.text = t /\ q.by = a /\ r = [q EXCEPT !.whole = whole]
      BY <1>3, <2>2
    <3> HIDE DEF q
    <3>2. QED
      BY <2>2, <3>1 DEF Record
  <2>4. EntryOK("events", r)
    BY <1>1, <2>3 DEF EntryOK, Authored
  <2>5. QED
    BY <1>1, <1>2, <2>1, <2>3, <2>4
<1>7. QED
  BY <1>4, <1>5, <1>6

(* A step of an analysis.                                                  *)
LEMMA AnalysisKeepsInv ==
    ASSUME KnowledgeInv, Settled, JobsOK', NEW a \in Analyses,
           \/ \E endpoint \in {"contract", "card", "full"}, work \in Works : StartAnalysis(a, endpoint, work)
           \/ \E endpoint \in {"card", "full"}, upload \in Uploads : StartUpload(a, endpoint, upload)
           \/ SaveDocument(a) \/ ReadExisting(a) \/ ReadExistingFails(a)
           \/ SaveChunk(a) \/ SaveEvent(a) \/ SaveContext(a)
    PROVE  KnowledgeInv'
<1>1. UNCHANGED <<chat, sent>>
  BY DEF StartAnalysis, StartUpload, SaveDocument, ReadExisting, ReadExistingFails, SaveChunk, SaveEvent,
         SaveContext
<1>2. FilesOK' /\ JournalsOK' /\ MishapsAdd
  <2>1. CASE SaveDocument(a) \/ SaveChunk(a) \/ SaveEvent(a)
    BY <2>1, WritingKeeps DEF KnowledgeInv
  <2>2. CASE ~(SaveDocument(a) \/ SaveChunk(a) \/ SaveEvent(a))
    <3>1. UNCHANGED <<file, saved, tears, crashes>>
      BY <2>2 DEF StartAnalysis, StartUpload, ReadExisting, ReadExistingFails, SaveContext
    <3>2. PICK failed \in BOOLEAN : Faulty(failed)
      <4>1. CASE ReadExisting(a)
        BY <4>1 DEF ReadExisting
      <4>2. CASE ~ReadExisting(a)
        <5>1. Faulty(FALSE)
          BY <2>2, <4>2 DEF StartAnalysis, StartUpload, ReadExistingFails, SaveContext, Faulty
        <5>2. QED
          BY <5>1
      <4>3. QED
        BY <4>1, <4>2
    <3>3. QED
      BY <3>1, <3>2, QuietKeeps DEF KnowledgeInv
  <2>3. QED
    BY <2>1, <2>2
<1>3. StoreOK'
  <2>1. CASE SaveContext(a)
    BY <2>1, SavingKeepsStore DEF KnowledgeInv
  <2>2. CASE ~SaveContext(a)
    <3>1. UNCHANGED contexts
      BY <2>2 DEF StartAnalysis, StartUpload, SaveDocument, ReadExisting, ReadExistingFails, SaveChunk, SaveEvent
    <3>2. QED
      BY <3>1 DEF KnowledgeInv, StoreOK
  <2>3. QED
    BY <2>1, <2>2
<1>4. RestOK'
  <2>1. loop' \in {loop, a, None}
    BY DEF StartAnalysis, StartUpload, Admit, SaveDocument, ReadExisting, ReadExistingFails, SaveChunk,
           SaveEvent, SaveContext, Leave
  <2>2. overlapped' \subseteq Documents
    <3>1. CASE SaveDocument(a)
      <4>1. job[a].document \in Documents
        BY <3>1 DEF KnowledgeInv, JobsOK, JobOK, SaveDocument, Saving
      <4>2. overlapped' \subseteq overlapped \cup {job[a].document}
        BY <3>1 DEF SaveDocument
      <4>3. QED
        BY <4>1, <4>2 DEF KnowledgeInv, RestOK
    <3>2. CASE ~SaveDocument(a)
      <4>1. UNCHANGED overlapped
        BY <3>2 DEF StartAnalysis, StartUpload, ReadExisting, ReadExistingFails, SaveChunk, SaveEvent, SaveContext
      <4>2. QED
        BY <4>1 DEF KnowledgeInv, RestOK
    <3>3. QED
      BY <3>1, <3>2
  <2>3. QED
    BY <2>1, <2>2 DEF KnowledgeInv, RestOK
<1>5. ChatsOK'
  BY <1>1 DEF KnowledgeInv, ChatsOK, ChatOK
<1>6. SendsOK'
  BY <1>1, <1>2, SendsStay DEF KnowledgeInv, MishapsAdd
<1>7. QED
  BY <1>2, <1>3, <1>4, <1>5, <1>6 DEF KnowledgeInv

(* A step of an ask.                                                       *)
LEMMA AskKeepsInv ==
    ASSUME KnowledgeInv, Settled, JobsOK', NEW k \in Asks,
           \/ \E question \in Questions : Retrieve(k, question) \/ RetrieveFails(k, question)
           \/ TellNoData(k) \/ ProviderHasNoData(k) \/ TellAnswer(k)
    PROVE  KnowledgeInv'
<1>1. UNCHANGED <<contexts, job, sent, overlapped, crashes>>
  BY DEF Retrieve, RetrieveFails, TellNoData, ProviderHasNoData, TellAnswer, Tell
<1>2. FilesOK' /\ JournalsOK' /\ ChatsOK' /\ MishapsAdd
  <2>1. CASE \E question \in Questions : Retrieve(k, question)
    <3>1. PICK question \in Questions : Retrieve(k, question)
      BY <2>1
    <3>2. UNCHANGED <<file, saved, tears>>
      BY <3>1 DEF Retrieve
    <3>3. CASE Reads(question)
      <4>1. PICK failed \in BOOLEAN :
                /\ Faulty(failed)
                /\ Found(k, question, KnownFragments(question.document, ReadOf("chunks", failed)))
        BY <3>1, <3>3 DEF Retrieve
      <4>2. question.document \in Documents
        BY <3>3, KnowledgeAssumption DEF Reads
      <4>3. KnownFragments(question.document, ReadOf("chunks", failed)) \in Seq(Fragment)
        BY <4>2, KnownTyped DEF KnowledgeInv
      <4>4. ChatsOK'
        BY <4>1, <4>3, FoundKeepsChats DEF KnowledgeInv
      <4>5. QED
        BY <1>1, <3>2, <4>1, <4>4, QuietKeeps DEF KnowledgeInv
    <3>4. CASE ~Reads(question)
      <4>1. Found(k, question, Own(question)) /\ Faulty(FALSE)
        BY <3>1, <3>4 DEF Retrieve, Faulty
      <4>2. question.own \in Seq(Fragment) /\ question.chunks \in Seq(Fragment)
        BY KnowledgeAssumption
      <4>3. Own(question) \in Seq(Fragment)
        BY <4>2 DEF Own
      <4>4. ChatsOK'
        BY <4>1, <4>3, FoundKeepsChats DEF KnowledgeInv
      <4>5. QED
        BY <1>1, <3>2, <4>1, <4>4, QuietKeeps DEF KnowledgeInv
    <3>5. QED
      BY <3>3, <3>4
  <2>2. CASE \E question \in Questions : RetrieveFails(k, question)
    <3>1. /\ UNCHANGED <<file, saved, tears>> /\ Faulty(FALSE)
          /\ chat' = [chat EXCEPT ![k].pc = "failed"]
      BY <2>2 DEF RetrieveFails, Faulty
    <3>2. ChatsOK'
      <4> DEFINE old == chat[k]
                 new == [old EXCEPT !.pc = "failed"]
      <4>1. old \in Chat /\ chat' = [chat EXCEPT ![k] = new]
        BY <3>1 DEF KnowledgeInv, ChatsOK, ChatOK
      <4> HIDE DEF old
      <4>2. new \in Chat /\ new.pc = "failed"
        BY <4>1 DEF Chat
      <4> HIDE DEF new
      <4>3. QED
        BY <4>1, <4>2, OneChat DEF KnowledgeInv, ChatOK
    <3>3. QED
      BY <1>1, <3>1, <3>2, QuietKeeps DEF KnowledgeInv
  <2>3. CASE TellNoData(k) \/ ProviderHasNoData(k) \/ TellAnswer(k)
    <3>1. PICK failed \in BOOLEAN : Faulty(failed)
      BY <2>3 DEF TellNoData, ProviderHasNoData, TellAnswer, Tell
    <3>2. MishapsAdd
      BY <1>1, <3>1, FaultsAdd DEF KnowledgeInv
    <3>3. QED
      BY <2>3, <3>2, TellingKeeps DEF KnowledgeInv
  <2>4. QED
    BY <2>1, <2>2, <2>3
<1>3. RestOK'
  <2>1. loop' \in {loop, k, None}
    BY DEF Retrieve, RetrieveFails, TellNoData, ProviderHasNoData, TellAnswer, Tell, Leave
  <2>2. QED
    BY <1>1, <2>1 DEF KnowledgeInv, RestOK
<1>4. StoreOK'
  BY <1>1 DEF KnowledgeInv, StoreOK
<1>5. SendsOK'
  BY <1>1, <1>2, SendsStay DEF KnowledgeInv, MishapsAdd
<1>6. QED
  BY <1>2, <1>3, <1>4, <1>5 DEF KnowledgeInv

(* A step of a send.                                                       *)
LEMMA SendKeepsInv ==
    ASSUME KnowledgeInv, Settled, JobsOK', NEW s \in Sends, NEW notice \in Notices,
           Send(s, notice) \/ RefuseSend(s, notice) \/ SendFails(s, notice)
    PROVE  KnowledgeInv'
<1>1. UNCHANGED <<contexts, loop, job, chat, overlapped, crashes>>
  BY DEF Send, RefuseSend, SendFails
<1>2. FilesOK' /\ JournalsOK' /\ SendsOK'
  <2>1. CASE Send(s, notice)
    BY <1>1, <2>1, SendingKeeps DEF KnowledgeInv
  <2>2. CASE RefuseSend(s, notice) \/ SendFails(s, notice)
    <3>1. PICK status \in {"refused", "failed"} : sent' = [sent EXCEPT ![s] = NotSent(status)]
      BY <2>2 DEF RefuseSend, SendFails
    <3>2. UNCHANGED <<file, saved, tears>> /\ Faulty(FALSE)
      BY <2>2 DEF RefuseSend, SendFails, Faulty
    <3>3. FilesOK' /\ JournalsOK' /\ MishapsAdd
      BY <1>1, <3>2, QuietKeeps DEF KnowledgeInv
    <3>4. NotSent(status) \in Outcome /\ Vouched(NotSent(status), job', faults' + crashes')
      BY DEF NotSent, Outcome, Vouched
    <3>5. SendsOK'
      BY <3>1, <3>3, <3>4, OneSend DEF KnowledgeInv, MishapsAdd
    <3>6. QED
      BY <3>3, <3>5
  <2>3. QED
    BY <2>1, <2>2
<1>3. ChatsOK' /\ StoreOK' /\ RestOK'
  BY <1>1 DEF KnowledgeInv, ChatsOK, ChatOK, StoreOK, RestOK
<1>4. QED
  BY <1>2, <1>3 DEF KnowledgeInv

LEMMA CrashKeepsInv ==
    ASSUME KnowledgeInv, Settled, JobsOK', Crash
    PROVE  KnowledgeInv'
<1>1. /\ contexts' = <<>> /\ loop' = None /\ crashes' = crashes + 1
      /\ UNCHANGED <<sent, saved, overlapped, faults>>
  BY DEF Crash
<1>2. FilesOK'
  BY CrashKeepsFiles DEF KnowledgeInv
<1>3. \A f \in Files : file'[f].records = file[f].records
  <2>1. CASE UNCHANGED <<file, tears>>
    BY <2>1
  <2>2. CASE \E f \in Writing, inCharacter \in BOOLEAN : Torn(f, inCharacter)
    BY <2>2 DEF Torn, KnowledgeInv, FilesOK, FilesTyped, FileOf
  <2>3. QED
    BY <2>1, <2>2 DEF Crash
<1>4. JournalsOK'
  BY <1>3, JournalsStay DEF KnowledgeInv
<1>5. ChatsOK'
  <2> DEFINE lost(k) == [chat[k] EXCEPT !.pc = "lost"]
  <2>1. \A k \in Asks : chat'[k] = IF chat[k].pc \in {"asking", "noData"} THEN lost(k) ELSE chat[k]
    BY DEF Crash
  <2>2. ASSUME NEW k \in Asks PROVE lost(k) \in Chat /\ lost(k).pc = "lost"
    <3>1. chat[k] \in Chat
      BY DEF KnowledgeInv, ChatsOK
    <3>2. ASSUME NEW c \in Chat PROVE [c EXCEPT !.pc = "lost"] \in Chat /\ [c EXCEPT !.pc = "lost"].pc = "lost"
      BY DEF Chat
    <3>3. QED
      BY <3>1, <3>2
  <2> HIDE DEF lost
  <2>3. \A k \in Asks : ChatOK(chat'[k])
    BY <2>1, <2>2 DEF KnowledgeInv, ChatsOK, ChatOK
  <2>4. chat' = [k \in Asks |-> chat'[k]]
    BY DEF Crash
  <2>5. chat' \in [Asks -> Chat]
    BY <2>3, <2>4 DEF ChatOK
  <2>6. QED
    BY <2>3, <2>5 DEF ChatsOK
<1>6. StoreOK'
  BY <1>1, KnowledgeAssumption DEF StoreOK
<1>7. MishapsAdd
  BY <1>1 DEF KnowledgeInv, FilesOK, FilesTyped, MishapsAdd
<1>8. SendsOK'
  BY <1>1, <1>7, SendsStay DEF KnowledgeInv, MishapsAdd
<1>9. RestOK'
  BY <1>1 DEF KnowledgeInv, RestOK
<1>10. QED
  BY <1>2, <1>4, <1>5, <1>6, <1>8, <1>9 DEF KnowledgeInv

LEMMA InitInv == Init => KnowledgeInv
<1> SUFFICES ASSUME Init PROVE KnowledgeInv
  OBVIOUS
<1>1. FilesOK
  <2>1. EmptyFile \in FileOf(Record)
    BY DEF EmptyFile, FileOf
  <2>2. FilesTyped
    BY <2>1, KnowledgeAssumption DEF Init, FilesTyped
  <2>3. ASSUME NEW f \in Files PROVE Damage(f)
    <3>1. /\ saved[f] = {} /\ tears[f] = 0 /\ faults = 0 /\ crashes = 0 /\ file[f] = EmptyFile
      BY DEF Init
    <3>2. Missing(f) = {} /\ Glue(f) = 0 /\ file[f].decodes
      BY <3>1 DEF Missing, Glue, EmptyFile
    <3>3. IsFiniteSet({}) /\ Cardinality({}) = 0
      BY FS_EmptySet
    <3>4. QED
      BY <3>1, <3>2, <3>3 DEF Damage
  <2>4. QED
    BY <2>2, <2>3 DEF FilesOK
<1>2. JobsOK
  <2>1. NoJob \in Job /\ NoJob.pc = "idle"
    BY DEF NoJob, Job
  <2>2. JobOK(NoJob)
    BY <2>1 DEF JobOK, Saving
  <2>3. QED
    BY <2>1, <2>2 DEF JobsOK, Init
<1>3. JournalsOK
  BY DEF Init, EmptyFile, JournalsOK
<1>4. ChatsOK
  <2>1. NoChat \in Chat /\ NoChat.pc = "idle"
    BY DEF NoChat, Chat
  <2>2. QED
    BY <2>1 DEF ChatsOK, ChatOK, Init
<1>5. StoreOK
  BY KnowledgeAssumption DEF Init, StoreOK
<1>6. SendsOK
  <2>1. NotSent("none") \in Outcome /\ NotSent("none").status = "none"
    BY DEF NotSent, Outcome
  <2>2. QED
    BY <2>1 DEF Init, SendsOK, Vouched
<1>7. RestOK
  BY DEF Init, RestOK
<1>8. QED
  BY <1>1, <1>2, <1>3, <1>4, <1>5, <1>6, <1>7 DEF KnowledgeInv

LEMMA StepInv == KnowledgeInv /\ [Next]_vars => KnowledgeInv'
<1> SUFFICES ASSUME KnowledgeInv, [Next]_vars PROVE KnowledgeInv'
  OBVIOUS
<1>1. JobsOK' /\ Settled
  BY JobsStep DEF KnowledgeInv
<1>2. ASSUME NEW a \in Analyses,
             \/ \E endpoint \in {"contract", "card", "full"}, work \in Works : StartAnalysis(a, endpoint, work)
             \/ \E endpoint \in {"card", "full"}, upload \in Uploads : StartUpload(a, endpoint, upload)
             \/ SaveDocument(a) \/ ReadExisting(a) \/ ReadExistingFails(a)
             \/ SaveChunk(a) \/ SaveEvent(a) \/ SaveContext(a)
      PROVE  KnowledgeInv'
  BY <1>1, <1>2, AnalysisKeepsInv
<1>3. ASSUME NEW k \in Asks,
             \/ \E question \in Questions : Retrieve(k, question) \/ RetrieveFails(k, question)
             \/ TellNoData(k) \/ ProviderHasNoData(k) \/ TellAnswer(k)
      PROVE  KnowledgeInv'
  BY <1>1, <1>3, AskKeepsInv
<1>4. ASSUME NEW s \in Sends, NEW notice \in Notices,
             Send(s, notice) \/ RefuseSend(s, notice) \/ SendFails(s, notice)
      PROVE  KnowledgeInv'
  BY <1>1, <1>4, SendKeepsInv
<1>5. CASE Crash
  BY <1>1, <1>5, CrashKeepsInv
<1>6. CASE UNCHANGED vars
  <2>1. UNCHANGED <<file, saved, tears, faults, crashes, contexts, loop, job, chat, sent, overlapped>>
    BY <1>6 DEF vars
  <2>2. Faulty(FALSE)
    BY <2>1 DEF Faulty
  <2>3. FilesOK' /\ JournalsOK' /\ MishapsAdd
    BY <1>1, <2>1, <2>2, QuietKeeps DEF KnowledgeInv
  <2>4. SendsOK'
    BY <1>1, <2>1, <2>3, SendsStay DEF KnowledgeInv, MishapsAdd
  <2>5. ChatsOK' /\ StoreOK' /\ RestOK'
    BY <2>1 DEF KnowledgeInv, ChatsOK, ChatOK, StoreOK, RestOK
  <2>6. QED
    BY <1>1, <2>3, <2>4, <2>5 DEF KnowledgeInv
<1>7. QED
  BY <1>2, <1>3, <1>4, <1>5, <1>6 DEF Next, Done

LEMMA AlwaysKnowledgeInv == Spec => []KnowledgeInv
<1>1. Init => KnowledgeInv
  BY InitInv
<1>2. KnowledgeInv /\ [Next]_vars => KnowledgeInv'
  BY StepInv
<1>3. QED
  BY <1>1, <1>2, PTL DEF Spec

(* The state of the knowledge base always has its shape: the context store  *)
(* never exceeds its limit nor holds a document twice, whatever order the   *)
(* worker threads, the event loop and the crashes come in.                 *)
THEOREM KnowledgeTyped == Spec => []TypeOK
<1>1. KnowledgeInv => TypeOK
  <2> SUFFICES ASSUME KnowledgeInv PROVE TypeOK
    OBVIOUS
  <2>1. FilesTyped /\ \A f \in Files : Damage(f)
    BY DEF KnowledgeInv, FilesOK
  <2>2. /\ faults \in 0..MaxMishaps /\ crashes \in 0..MaxMishaps
        /\ faults + crashes \in Nat /\ faults + crashes <= MaxMishaps /\ MaxMishaps \in Nat
    BY <2>1, KnowledgeAssumption DEF FilesTyped
  <2>3. \A f \in Files : tears[f] \in 0..MaxMishaps
    BY <2>1, <2>2 DEF FilesTyped, Damage
  <2>4. tears \in [Files -> 0..MaxMishaps]
    BY <2>1, <2>3 DEF FilesTyped
  <2>5. QED
    BY <2>1, <2>2, <2>4
       DEF KnowledgeInv, FilesTyped, JobsOK, ChatsOK, StoreOK, Context, SendsOK, RestOK, TypeOK
<1>2. QED
  BY <1>1, AlwaysKnowledgeInv, PTL

(* Records that were reported saved are lost only to torn lines, one for    *)
(* each, however many appends, faults and crashes interleave.              *)
THEOREM SavedIsKept == Spec => []NothingSavedIsLost
<1>1. KnowledgeInv => NothingSavedIsLost
  <2> SUFFICES ASSUME KnowledgeInv, NEW f \in Files
               PROVE  Cardinality(saved[f] \ ToSet(file[f].records)) <= tears[f]
    BY DEF NothingSavedIsLost
  <2> DEFINE c == Cardinality(Missing(f))
  <2>1. /\ IsFiniteSet(saved[f]) /\ c + Glue(f) <= tears[f]
        /\ Glue(f) \in {0, 1} /\ tears[f] \in Nat
    BY DEF KnowledgeInv, FilesOK, FilesTyped, Damage, Glue
  <2>2. c \in Nat
    BY <2>1, FS_Subset, FS_CardinalityType DEF Missing
  <2> HIDE DEF c
  <2>3. c <= tears[f]
    BY <2>1, <2>2
  <2>4. QED
    BY <2>3 DEF c, Missing
<1>2. QED
  BY <1>1, AlwaysKnowledgeInv, PTL

(* A notification that was sent was checked against an analysis that names  *)
(* its client, or there was no record of its document to check against, or *)
(* a read or write had failed before.                                      *)
THEOREM SentWhereListed == Spec => []SentToListedClients
<1>1. KnowledgeInv => SentToListedClients
  <2> SUFFICES ASSUME KnowledgeInv, NEW s \in Sends, sent[s].status = "sent"
               PROVE  \/ /\ ~sent[s].blind
                         /\ \E a \in Analyses :
                               /\ job[a].document = sent[s].notice.document \/ a = sent[s].notice.event
                               /\ job[a].text \in Texts \ Neutral
                               /\ sent[s].notice.client \in Listed[job[a].text]
                      \/ sent[s].blind /\ (~sent[s].known \/ faults > 0 \/ crashes > 0)
    BY DEF SentToListedClients
  <2>1. /\ ~sent[s].blind => \E a \in Analyses : Vouches(job[a], a, sent[s].notice)
        /\ sent[s].blind => ~sent[s].known \/ faults + crashes > 0
    BY DEF KnowledgeInv, SendsOK, Vouched
  <2>2. faults \in Nat /\ crashes \in Nat
    BY DEF KnowledgeInv, FilesOK, FilesTyped
  <2>3. sent[s].blind \in BOOLEAN
    BY DEF KnowledgeInv, SendsOK, Outcome
  <2>4. faults + crashes > 0 => faults > 0 \/ crashes > 0
    BY <2>2
  <2>5. QED
    BY <2>1, <2>3, <2>4 DEF Vouches
<1>2. QED
  BY <1>1, AlwaysKnowledgeInv, PTL

-----------------------------------------------------------------------------
(* What is stored answers.                                                 *)

(* The chunks a reader gets of a document are the last whole record of each. *)
LEMMA StoredItems ==
    ASSUME FilesOK, NEW d
    PROVE  LET s      == file["chunks"].records
               latest == Latest(Readable(file["chunks"]), d)
           IN  /\ \A q \in Record : IsLast(s, WholeAt(d, q.n), q) =>
                     \E k \in DOMAIN latest : latest[k] = AsChunk(d, q)
               /\ \A k \in DOMAIN latest :
                     \E q \in Record : IsLast(s, WholeAt(d, q.n), q) /\ latest[k] = AsChunk(d, q)
<1> DEFINE s       == file["chunks"].records
           wholes  == {i \in DOMAIN s : s[i].whole}
           records == Picked(s, wholes)
           latest  == Latest(records, d)
<1>1. s \in Seq(Record)
  BY DEF FilesOK, FilesTyped, FileOf, Files
<1>2. \A i \in DOMAIN s : i \in wholes <=> s[i] \in Whole
  BY <1>1 DEF Whole
<1>3. wholes \in SUBSET DOMAIN s
  OBVIOUS
<1>4. Readable(file["chunks"]) = records
  BY DEF Readable
<1> HIDE DEF s, wholes
<1>5. records \in Seq(Record)
  BY <1>1, <1>3, PickedItems
<1>6. \A kind, r : IsLast(records, kind, r) <=> IsLast(s, kind \cap Whole, r)
  BY <1>1, <1>2, <1>3, LastOfPicked
<1>7. \A n, r : IsLast(records, ChunkAt(d, n), r) <=> IsLast(s, WholeAt(d, n), r)
  BY <1>6 DEF WholeAt
<1> HIDE DEF records
<1>8. /\ \A k \in DOMAIN latest :
            \E r \in Record : IsLast(records, ChunkAt(d, r.n), r) /\ latest[k] = AsChunk(d, r)
      /\ \A r \in Record : IsLast(records, ChunkAt(d, r.n), r) =>
            \E k \in DOMAIN latest : latest[k] = AsChunk(d, r)
  BY <1>5, LatestItems
<1> HIDE DEF latest
<1>9. QED
  BY <1>4, <1>7, <1>8 DEF latest, s

(* Only an ask finds nothing, and it has looked where its question says.    *)
LEMMA NothingFound ==
    ASSUME KnowledgeInv, [Next]_vars, NEW k \in Asks, chat[k].pc = "idle", chat'[k].pc = "noData"
    PROVE  \E question \in Questions : Retrieve(k, question)
<1>1. chat' # chat
  OBVIOUS
<1>2. \E j \in Asks : \/ \E question \in Questions : Retrieve(j, question) \/ RetrieveFails(j, question)
                      \/ TellNoData(j) \/ ProviderHasNoData(j) \/ TellAnswer(j)
  <2>1. ~Crash
    BY DEF Crash
  <2>2. QED
    BY <1>1, <2>1 DEF Next, vars, StartAnalysis, StartUpload, SaveDocument, ReadExisting, ReadExistingFails,
                      SaveChunk, SaveEvent, SaveContext, Send, RefuseSend, SendFails, Done
<1>3. PICK j \in Asks : \/ \E question \in Questions : Retrieve(j, question) \/ RetrieveFails(j, question)
                        \/ TellNoData(j) \/ ProviderHasNoData(j) \/ TellAnswer(j)
  BY <1>2
<1>4. chat \in [Asks -> Chat]
  BY DEF KnowledgeInv, ChatsOK
<1>5. \E new : chat' = [chat EXCEPT ![j] = new]
  <2>1. CASE \E question \in Questions : Retrieve(j, question)
    BY <2>1 DEF Retrieve, Found
  <2>2. CASE \E question \in Questions : RetrieveFails(j, question)
    BY <2>2 DEF RetrieveFails
  <2>3. CASE TellNoData(j) \/ ProviderHasNoData(j) \/ TellAnswer(j)
    BY <2>3 DEF TellNoData, ProviderHasNoData, TellAnswer, Tell
  <2>4. QED
    BY <1>3, <2>1, <2>2, <2>3
<1>6. j = k
  BY <1>4, <1>5
<1>7. ~(TellNoData(k) \/ ProviderHasNoData(k) \/ TellAnswer(k))
  BY DEF TellNoData, ProviderHasNoData, TellAnswer
<1>8. ASSUME NEW question \in Questions, RetrieveFails(k, question) PROVE FALSE
  <2>1. chat' = [chat EXCEPT ![k].pc = "failed"] /\ chat[k] \in Chat
    BY <1>4, <1>8 DEF RetrieveFails
  <2>2. chat'[k].pc = "failed"
    BY <1>4, <2>1 DEF Chat
  <2>3. QED
    BY <2>2
<1>9. QED
  BY <1>3, <1>6, <1>7, <1>8

(* While no line of the chunks is torn, every record reported saved is there. *)
LEMMA NothingMissing ==
    ASSUME FilesOK, NEW f \in Files, tears[f] = 0, NEW r \in saved[f]
    PROVE  \E i \in DOMAIN file[f].records : file[f].records[i] = r
<1> DEFINE c == Cardinality(Missing(f))
<1>1. IsFiniteSet(saved[f]) /\ Glue(f) \in {0, 1} /\ c + Glue(f) <= 0
  BY DEF FilesOK, Damage, Glue
<1>2. IsFiniteSet(Missing(f))
  BY <1>1, FS_Subset DEF Missing
<1>3. c \in Nat
  BY <1>2, FS_CardinalityType
<1> HIDE DEF c
<1>4. c = 0
  BY <1>1, <1>3
<1>5. Missing(f) = {}
  BY <1>2, <1>4, FS_EmptySet DEF c
<1>6. QED
  BY <1>5 DEF Missing, ToSet

(* A chat that finds nothing to say of a document has read its chunks, and  *)
(* each saved chunk that bears on the question was replaced: the last       *)
(* record of that chunk stands after it and has another text.  Neither      *)
(* evicted contexts nor restarts make the chat forget.                     *)
THEOREM ChatRemembers == Spec => SavedDocumentsAnswer
<1> DEFINE Remembers ==
        \A k \in Asks :
            (/\ chat[k].pc = "idle" /\ chat'[k].pc = "noData"
             /\ faults' = faults /\ tears["chunks"] = 0
             /\ Reads(chat'[k].question)) =>
                \A r \in saved["chunks"] :
                    (/\ r.document = chat'[k].question.document
                     /\ r.whole
                     /\ chat'[k].question.score[<<r.text, r.n>>] > 0) =>
                        Replaced(file["chunks"].records, r)
<1>1. KnowledgeInv /\ [Next]_vars => [Remembers]_vars
  <2> SUFFICES ASSUME KnowledgeInv, [Next]_vars, NEW k \in Asks,
                      chat[k].pc = "idle", chat'[k].pc = "noData", faults' = faults, tears["chunks"] = 0,
                      Reads(chat'[k].question), NEW r \in saved["chunks"],
                      r.document = chat'[k].question.document, r.whole,
                      chat'[k].question.score[<<r.text, r.n>>] > 0
               PROVE  Replaced(file["chunks"].records, r)
    OBVIOUS
  <2> DEFINE s      == file["chunks"].records
             d      == r.document
             latest == Latest(Readable(file["chunks"]), d)
  <2>1. PICK question \in Questions : Retrieve(k, question)
    BY NothingFound
  <2>2. "chunks" \in Files /\ FilesOK /\ JournalsOK /\ StoreOK
    BY DEF KnowledgeInv, Files
  <2>3. chat'[k].question = question
    BY <2>1 DEF Retrieve, Found, KnowledgeInv, ChatsOK
  <2>4. d = question.document /\ d \in Documents
    BY <2>3, KnowledgeAssumption DEF Reads
  <2>5. PICK failed \in BOOLEAN :
            Faulty(failed) /\ Found(k, question, KnownFragments(d, ReadOf("chunks", failed)))
    BY <2>1, <2>3, <2>4 DEF Retrieve
  <2>6. ~failed
    <3>1. faults \in Nat
      BY <2>2 DEF FilesOK, FilesTyped
    <3>2. QED
      BY <2>5, <3>1 DEF Faulty
  <2> DEFINE known == KnownFragments(d, Readable(file["chunks"]))
  <2>7. Found(k, question, known)
    BY <2>5, <2>6 DEF ReadOf
  <2>8. known \in Seq(Fragment)
    <3>1. ReadOf("chunks", FALSE) = Readable(file["chunks"])
      BY DEF ReadOf
    <3>2. KnownFragments(d, ReadOf("chunks", FALSE)) \in Seq(Fragment)
      BY <2>2, <2>4, KnownTyped
    <3>3. QED
      BY <3>1, <3>2
  <2> HIDE DEF known
  <2>9. Retrieved(question, known) = <<>>
    <3>1. chat'[k].pc = IF Retrieved(question, known) = <<>> THEN "noData" ELSE "asking"
      BY <2>7 DEF Found, KnowledgeInv, ChatsOK
    <3>2. QED
      BY <3>1
  <2>10. \A i \in DOMAIN known : ~(Score(question, known[i]) > 0)
    BY <2>8, <2>9, RetrievedFragments
  <2>11. PICK i \in DOMAIN s : s[i] = r
    BY <2>2, NothingMissing
  <2>12. r \in Record /\ r \in WholeAt(d, r.n) /\ s \in Seq(Record)
    BY <2>2 DEF FilesOK, FilesTyped, FileOf, WholeAt, ChunkAt, Whole
  <2>13. PICK q \in WholeAt(d, r.n) : IsLast(s, WholeAt(d, r.n), q)
    BY <2>11, <2>12, SomeLast
  <2>14. q \in Record /\ q.document = d /\ q.n = r.n /\ q.whole
    BY <2>13 DEF WholeAt, ChunkAt, Whole
  <2>15. PICK m \in DOMAIN latest : latest[m] = AsChunk(d, q)
    BY <2>2, <2>13, <2>14, StoredItems
  <2>16. known = latest
    <3>1. latest # <<>>
      BY <2>15
    <3>2. QED
      BY <3>1 DEF known, KnownFragments
  <2>17. latest[m].text = q.text /\ latest[m].n = r.n
    BY <2>14, <2>15 DEF AsChunk
  <2>18. q.text # r.text
    <3>1. ~(Score(question, latest[m]) > 0)
      BY <2>10, <2>15, <2>16
    <3>2. Score(question, latest[m]) = question.score[<<q.text, r.n>>]
      BY <2>17 DEF Score
    <3>3. QED
      BY <2>3, <3>1, <3>2
  <2> HIDE DEF s
  <2>19. PICK later \in DOMAIN s :
            /\ s[later] = q
            /\ \A j \in DOMAIN s : s[j] \in WholeAt(d, r.n) => j <= later
    BY <2>13 DEF IsLast
  <2>20. IsChunkOf(s[later], r) /\ s[later].text # r.text
    BY <2>14, <2>18, <2>19 DEF IsChunkOf
  <2>21. ASSUME NEW j \in DOMAIN s, IsChunkOf(s[j], r), s[j].text = r.text
         PROVE  j < later
    <3>1. s[j] \in WholeAt(d, r.n)
      BY <2>12, <2>21 DEF IsChunkOf, WholeAt, ChunkAt, Whole
    <3>2. j <= later /\ j # later
      BY <2>19, <2>20, <2>21, <3>1
    <3>3. j \in Nat /\ later \in Nat
      BY <2>12
    <3>4. QED
      BY <3>2, <3>3
  <2>22. Replaced(s, r)
    BY <2>20, <2>21 DEF Replaced
  <2>23. QED
    BY <2>22 DEF s
<1>2. QED
  BY <1>1, AlwaysKnowledgeInv, PTL DEF Spec, SavedDocumentsAnswer

-----------------------------------------------------------------------------
(* Chunks follow their document.                                           *)

\* An analysis that has saved its document d and is not done.
Later(a, d) == job[a].pc \in Saving \ {"document"} /\ job[a].document = d

\* The chunks it has still to go through.
Pending(a, n) == job[a].pc = "read" \/ (job[a].pc = "chunks" /\ n > job[a].counted)

Newest(d, r) == IsLast(file["documents"].records, Of(d), r)

\* A reader gets this text of that chunk.
Follows(d, n, t) == \E q : IsLast(file["chunks"].records, WholeAt(d, n), q) /\ q.text = t

OneLater(d) == \A a, b \in Analyses : Later(a, d) /\ Later(b, d) => a = b

LaterIsNewest(d) ==
    \A a \in Analyses : Later(a, d) => \E r : Newest(d, r) /\ r.text = job[a].text

NewestFollowed(d) ==
    \A r : Newest(d, r) =>
        \A n \in 1..Count[r.text] :
            <<r.text, n>> \notin Split =>
                Follows(d, n, r.text) \/ \E a \in Analyses : Later(a, d) /\ Pending(a, n)

SeenIsStored(d) ==
    \A a \in Analyses :
        Later(a, d) /\ job[a].pc = "chunks" =>
            \A n : <<n, job[a].text>> \in job[a].seen => Follows(d, n, job[a].text)

UpToDate(d) == OneLater(d) /\ LaterIsNewest(d) /\ NewestFollowed(d) /\ SeenIsStored(d)

ChunksInv == faults = 0 /\ crashes = 0 => \A d \in Documents \ overlapped : UpToDate(d)

(* What an action must leave alone.                                        *)
LEMMA UpToDateStays ==
    ASSUME NEW d, UpToDate(d),
           \A r : Newest(d, r)' <=> Newest(d, r),
           \A n, t : Follows(d, n, t) => Follows(d, n, t)',
           \A a \in Analyses : Later(a, d)' =>
               /\ Later(a, d) /\ job'[a].text = job[a].text
               /\ job'[a].pc = "chunks" => job[a].pc = "chunks" /\ job'[a].seen = job[a].seen,
           \A a \in Analyses : \A n : Later(a, d) /\ Pending(a, n) => Later(a, d)' /\ Pending(a, n)'
    PROVE  UpToDate(d)'
<1>1. OneLater(d)'
  BY DEF UpToDate, OneLater
<1>2. LaterIsNewest(d)'
  BY DEF UpToDate, LaterIsNewest
<1>3. NewestFollowed(d)'
  <2> SUFFICES ASSUME NEW r, Newest(d, r)', NEW n \in 1..Count[r.text], <<r.text, n>> \notin Split
               PROVE  Follows(d, n, r.text)' \/ \E a \in Analyses : Later(a, d)' /\ Pending(a, n)'
    BY DEF NewestFollowed
  <2>1. Follows(d, n, r.text) \/ \E a \in Analyses : Later(a, d) /\ Pending(a, n)
    BY DEF UpToDate, NewestFollowed
  <2>2. QED
    BY <2>1
<1>4. SeenIsStored(d)'
  BY DEF UpToDate, SeenIsStored
<1>5. QED
  BY <1>1, <1>2, <1>3, <1>4 DEF UpToDate

(* Without mishaps an append writes its record.                            *)
LEMMA CleanAppend ==
    ASSUME FilesOK, FilesOK', NEW f \in Files, NEW r \in Record, faults' = 0, crashes' = 0, crashes = 0,
           \E ok \in BOOLEAN : AppendTo(f, r, ok) /\ Faulty(~ok)
    PROVE  /\ file'[f].records = Append(file[f].records, r)
           /\ \A g \in Files \ {f} : file'[g] = file[g]
<1>1. PICK ok \in BOOLEAN : AppendTo(f, r, ok) /\ Faulty(~ok)
  OBVIOUS
<1>2. faults \in Nat
  BY DEF FilesOK, FilesTyped
<1>3. ok /\ faults = 0
  BY <1>1, <1>2 DEF Faulty
<1>4. ~file[f].torn
  <2>1. /\ Cardinality(Missing(f)) + Glue(f) <= tears[f] /\ tears[f] <= 0 /\ IsFiniteSet(Missing(f))
    BY <1>3, FS_Subset DEF FilesOK, Damage, Missing
  <2>2. Cardinality(Missing(f)) \in Nat /\ tears[f] \in Nat
    BY <2>1, FS_CardinalityType DEF FilesOK, FilesTyped
  <2> DEFINE c == Cardinality(Missing(f))
  <2> HIDE DEF c
  <2>3. c + Glue(f) <= 0 /\ c \in Nat /\ Glue(f) \in {0, 1}
    <3>1. Glue(f) \in {0, 1}
      BY DEF Glue
    <3>2. QED
      BY <2>1, <2>2, <3>1 DEF c
  <2>4. Glue(f) = 0
    BY <2>3
  <2>5. QED
    BY <2>4 DEF Glue
<1>5. Write(f, r, ok) /\ \A g \in Files \ {f} : file'[g] = file[g]
  BY <1>1, AppendedCases DEF AppendTo, FilesOK
<1>6. file'[f] = [records |-> Append(file[f].records, r), torn |-> FALSE, decodes |-> file[f].decodes]
  BY <1>3, <1>4, <1>5 DEF Write
<1>7. QED
  BY <1>5, <1>6

(* A file that no step appended to.                                        *)
LEMMA NewestStays ==
    ASSUME file'["documents"].records = file["documents"].records, NEW d
    PROVE  \A r : Newest(d, r)' <=> Newest(d, r)
BY DEF Newest, IsLast

LEMMA FollowsStays ==
    ASSUME file'["chunks"].records = file["chunks"].records, NEW d
    PROVE  \A n, t : Follows(d, n, t) => Follows(d, n, t)'
BY DEF Follows, IsLast

(* What the steps of an analysis after its chunks, and all steps of other   *)
(* actors, leave alone.                                                    *)
LEMMA OthersKeepUpToDate ==
    ASSUME NEW d, UpToDate(d), \A f \in {"documents", "chunks"} : file'[f].records = file[f].records,
           \A a \in Analyses : \/ job'[a] = job[a]
                               \/ ~Later(a, d) /\ ~Later(a, d)'
                               \/ /\ job[a].pc \in {"event", "context"} /\ job'[a].pc \notin {"read", "chunks"}
                                  /\ job'[a].text = job[a].text /\ job'[a].document = job[a].document
    PROVE  UpToDate(d)'
<1>1. \A r : Newest(d, r)' <=> Newest(d, r)
  BY NewestStays
<1>2. \A n, t : Follows(d, n, t) => Follows(d, n, t)'
  BY FollowsStays
<1>3. ASSUME NEW a \in Analyses, Later(a, d)'
      PROVE  /\ Later(a, d) /\ job'[a].text = job[a].text
             /\ job'[a].pc = "chunks" => job[a].pc = "chunks" /\ job'[a].seen = job[a].seen
  BY <1>3 DEF Later, Saving
<1>4. ASSUME NEW a \in Analyses, NEW n, Later(a, d), Pending(a, n)
      PROVE  Later(a, d)' /\ Pending(a, n)'
  BY <1>4 DEF Later, Pending, Saving
<1>5. QED
  BY <1>1, <1>2, <1>3, <1>4, UpToDateStays

(* The document is saved: no other analysis of it is at work, and all its   *)
(* chunks are still to be gone through.                                    *)
LEMMA DocumentKeepsUpToDate ==
    ASSUME KnowledgeInv, FilesOK', NEW a \in Analyses, SaveDocument(a), faults' = 0, crashes' = 0,
           NEW d \in Documents, d \notin overlapped', UpToDate(d)
    PROVE  UpToDate(d)'
<1> DEFINE e == job[a].document
           t == job[a].text
<1>1. /\ e \in Documents /\ t \in Texts /\ job[a].pc = "document" /\ job \in [Analyses -> Job]
      /\ crashes' = crashes /\ FilesOK /\ "documents" \in Files /\ "chunks" \in Files
  BY DEF KnowledgeInv, JobsOK, JobOK, SaveDocument, Saving, Files
<1>2. PICK r \in Record : r = RecordOf(a, e, t, 0) /\ r.document = e /\ r.text = t
  <2>1. RecordOf(a, e, t, 0) \in Record
    BY <1>1, RecordTyped
  <2>2. QED
    BY <2>1 DEF RecordOf
<1>3. \E ok \in BOOLEAN : AppendTo("documents", r, ok) /\ Faulty(~ok)
  BY <1>2 DEF SaveDocument
<1>4. /\ \A b \in Analyses \ {a} : job'[b] = job[b]
      /\ job'[a].pc = "read" /\ job'[a].document = e /\ job'[a].text = t
  <2> DEFINE old == job[a]
  <2>1. job' = [job EXCEPT ![a] = [old EXCEPT !.pc = "read"]] /\ old \in Job
    BY <1>1 DEF SaveDocument, Step
  <2>2. job'[a] = [old EXCEPT !.pc = "read"] /\ \A b \in Analyses \ {a} : job'[b] = job[b]
    BY <1>1, <2>1
  <2> HIDE DEF old
  <2>3. [old EXCEPT !.pc = "read"].pc = "read"
    BY <2>1 DEF Job
  <2>4. [old EXCEPT !.pc = "read"].document = old.document /\ [old EXCEPT !.pc = "read"].text = old.text
    BY <2>1 DEF Job
  <2>5. QED
    BY <2>2, <2>3, <2>4 DEF old
<1>5. /\ file'["documents"].records = Append(file["documents"].records, r)
      /\ file'["chunks"] = file["chunks"]
  BY <1>1, <1>2, <1>3, CleanAppend
<1>6. file["documents"].records \in Seq(Record)
  BY <1>1 DEF FilesOK, FilesTyped, FileOf
<1>7. \A n, text : Follows(d, n, text) => Follows(d, n, text)'
  BY <1>5, FollowsStays
<1>8. CASE e # d
  <2>1. \A q : Newest(d, q)' <=> Newest(d, q)
    <3>1. r \notin Of(d)
      BY <1>2, <1>8 DEF Of
    <3>2. QED
      BY <1>2, <1>5, <1>6, <3>1, LastAfterAppend DEF Newest
  <2>2. ASSUME NEW b \in Analyses, Later(b, d)'
        PROVE  /\ Later(b, d) /\ job'[b].text = job[b].text
               /\ job'[b].pc = "chunks" => job[b].pc = "chunks" /\ job'[b].seen = job[b].seen
    BY <1>4, <1>8, <2>2 DEF Later
  <2>3. ASSUME NEW b \in Analyses, NEW n, Later(b, d), Pending(b, n)
        PROVE  Later(b, d)' /\ Pending(b, n)'
    BY <1>1, <1>4, <1>8, <2>3 DEF Later, Pending
  <2>4. QED
    BY <1>7, <2>1, <2>2, <2>3, UpToDateStays
<1>9. CASE e = d
  <2>1. \A b \in Analyses \ {a} : ~Later(b, d)
    <3> SUFFICES ASSUME NEW b \in Analyses \ {a}, Later(b, d) PROVE FALSE
      OBVIOUS
    <3>1. d \in overlapped'
      BY <1>9 DEF SaveDocument, Later
    <3>2. QED
      BY <3>1
  <2>2. \A b \in Analyses : Later(b, d)' <=> b = a
    BY <1>4, <1>9, <2>1 DEF Later, Saving
  <2>3. \A q : Newest(d, q)' <=> q = r
    <3>1. r \in Of(d)
      BY <1>2, <1>9 DEF Of
    <3>2. Newest(d, r)'
      BY <1>2, <1>5, <1>6, <3>1, LastAfterAppend DEF Newest
    <3>3. file'["documents"].records \in Seq(Record)
      BY <1>2, <1>5, <1>6
    <3>4. \A q : Newest(d, q)' => q = r
      BY <3>2, <3>3, OneLast DEF Newest
    <3>5. QED
      BY <3>2, <3>4
  <2>4. OneLater(d)'
    BY <2>2 DEF OneLater
  <2>5. LaterIsNewest(d)'
    BY <1>2, <1>4, <2>2, <2>3 DEF LaterIsNewest
  <2>6. NewestFollowed(d)'
    BY <1>4, <2>2 DEF NewestFollowed, Pending
  <2>7. SeenIsStored(d)'
    BY <1>4, <2>2 DEF SeenIsStored
  <2>8. QED
    BY <2>4, <2>5, <2>6, <2>7 DEF UpToDate
<1>10. QED
  BY <1>8, <1>9

(* The stored chunks are read as they are.                                 *)
LEMMA ReadingKeepsUpToDate ==
    ASSUME KnowledgeInv, NEW a \in Analyses, ReadExisting(a), faults' = 0, crashes' = 0,
           NEW d \in Documents, UpToDate(d)
    PROVE  UpToDate(d)'
<1> DEFINE e    == job[a].document
           t    == job[a].text
           seen == Existing(Readable(file["chunks"]), e)
           latest == Latest(Readable(file["chunks"]), e)
<1>1. /\ e \in Documents /\ t \in Texts /\ job[a].pc = "read" /\ job \in [Analyses -> Job]
      /\ job[a].counted = 0 /\ FilesOK /\ faults \in Nat /\ file' = file
  BY DEF KnowledgeInv, JobsOK, JobOK, ReadExisting, Saving, FilesOK, FilesTyped
<1>2. PICK failed \in BOOLEAN :
          /\ Faulty(failed)
          /\ job' = [job EXCEPT ![a].pc = "chunks", ![a].seen = Existing(ReadOf("chunks", failed), e)]
  BY DEF ReadExisting
<1>3. ~failed
  BY <1>1, <1>2 DEF Faulty
<1>4. job' = [job EXCEPT ![a].pc = "chunks", ![a].seen = seen]
  BY <1>2, <1>3 DEF ReadOf
<1>5. /\ \A b \in Analyses \ {a} : job'[b] = job[b]
      /\ job'[a].pc = "chunks" /\ job'[a].document = e /\ job'[a].text = t /\ job'[a].seen = seen
      /\ job'[a].counted = 0
  <2> DEFINE old == job[a]
             new == [old EXCEPT !.pc = "chunks", !.seen = seen]
  <2>1. job' = [job EXCEPT ![a] = new] /\ old \in Job
    BY <1>1, <1>4
  <2>2. job'[a] = new /\ \A b \in Analyses \ {a} : job'[b] = job[b]
    BY <1>1, <2>1
  <2> HIDE DEF old, seen
  <2>3. /\ new.pc = "chunks" /\ new.seen = seen
        /\ new.document = old.document /\ new.text = old.text /\ new.counted = old.counted
    BY <2>1 DEF Job
  <2>4. QED
    BY <1>1, <2>2, <2>3 DEF old
<1>6. \A r : Newest(d, r)' <=> Newest(d, r)
  BY <1>1, NewestStays
<1>7. \A n, text : Follows(d, n, text) <=> Follows(d, n, text)'
  BY <1>1 DEF Follows, IsLast
<1>8. \A b \in Analyses : Later(b, d)' <=> Later(b, d)
  BY <1>1, <1>5 DEF Later, Saving
<1>9. \A p \in seen : Follows(e, p[1], p[2])
  <2> SUFFICES ASSUME NEW p \in seen PROVE Follows(e, p[1], p[2])
    OBVIOUS
  <2>1. PICK k \in DOMAIN latest : p = <<latest[k].n, latest[k].text>>
    BY DEF Existing, ToSet
  <2>2. PICK q \in Record : /\ IsLast(file["chunks"].records, WholeAt(e, q.n), q)
                            /\ latest[k] = AsChunk(e, q)
    BY <1>1, <2>1, StoredItems
  <2>3. p[1] = q.n /\ p[2] = q.text
    BY <2>1, <2>2 DEF AsChunk
  <2>4. QED
    BY <2>2, <2>3 DEF Follows
<1> HIDE DEF seen
<1>10. OneLater(d)' /\ LaterIsNewest(d)'
  <2>1. \A b \in Analyses : job'[b].text = job[b].text
    BY <1>5
  <2>2. QED
    BY <1>6, <1>8, <2>1 DEF UpToDate, OneLater, LaterIsNewest
<1>11. NewestFollowed(d)'
  <2> SUFFICES ASSUME NEW r, Newest(d, r)', NEW n \in 1..Count[r.text], <<r.text, n>> \notin Split
               PROVE  Follows(d, n, r.text)' \/ \E b \in Analyses : Later(b, d)' /\ Pending(b, n)'
    BY DEF NewestFollowed
  <2>1. Follows(d, n, r.text) \/ \E b \in Analyses : Later(b, d) /\ Pending(b, n)
    BY <1>6 DEF UpToDate, NewestFollowed
  <2>2. n > 0
    OBVIOUS
  <2>3. \A b \in Analyses : Pending(b, n) => Pending(b, n)'
    BY <1>5, <2>2 DEF Pending
  <2>4. QED
    BY <1>7, <1>8, <2>1, <2>3
<1>12. SeenIsStored(d)'
  <2> SUFFICES ASSUME NEW b \in Analyses, Later(b, d)', job'[b].pc = "chunks",
                      NEW n, <<n, job'[b].text>> \in job'[b].seen
               PROVE  Follows(d, n, job[b].text)'
    BY <1>5 DEF SeenIsStored
  <2>1. CASE b = a
    <3>1. e = d /\ <<n, t>> \in seen
      BY <1>5, <2>1 DEF Later
    <3>2. Follows(d, n, t)
      BY <1>9, <3>1
    <3>3. \A text : text = t => Follows(d, n, text)'
      BY <1>7, <3>2
    <3>4. QED
      BY <1>5, <2>1, <3>3
  <2>2. CASE b # a
    <3>1. Follows(d, n, job[b].text) /\ job'[b].text = job[b].text
      BY <1>5, <1>8, <2>2 DEF UpToDate, SeenIsStored
    <3>2. \A text : text = job[b].text => Follows(d, n, text)'
      BY <1>7, <3>1
    <3>3. QED
      BY <3>1, <3>2
  <2>3. QED
    BY <2>1, <2>2
<1>13. QED
  BY <1>10, <1>11, <1>12 DEF UpToDate

(* A chunk is gone through: it is stored, or was found stored.              *)
LEMMA ChunkKeepsUpToDate ==
    ASSUME KnowledgeInv, FilesOK', NEW a \in Analyses, SaveChunk(a), faults' = 0, crashes' = 0,
           NEW d \in Documents, UpToDate(d)
    PROVE  UpToDate(d)'
<1> DEFINE s    == file["chunks"].records
           seen == job[a].seen
<1>1. PICK e \in Documents, t \in Texts, n \in Nat :
          /\ job[a].document = e /\ job[a].text = t /\ n = job[a].counted + 1 /\ n <= Count[t]
  <2>1. /\ job[a].document \in Documents /\ job[a].text \in Texts /\ job[a].counted \in Nat
        /\ job[a].counted < Count[job[a].text]
    BY DEF KnowledgeInv, JobsOK, JobOK, SaveChunk, Saving, Job
  <2>2. Count[job[a].text] \in Nat
    BY <2>1, KnowledgeAssumption
  <2>3. job[a].counted + 1 \in Nat /\ job[a].counted + 1 <= Count[job[a].text]
    BY <2>1, <2>2
  <2>4. QED
    BY <2>1, <2>3
<1>2. /\ job \in [Analyses -> Job] /\ job[a].pc = "chunks" /\ crashes' = crashes /\ FilesOK
      /\ "chunks" \in Files /\ "documents" \in Files /\ job[a].counted \in Nat /\ Count[t] \in Nat
  BY KnowledgeAssumption DEF KnowledgeInv, JobsOK, SaveChunk, Files, Job
<1>3. /\ \A b \in Analyses \ {a} : job'[b] = job[b]
      /\ job'[a].document = e /\ job'[a].text = t
      /\ \/ job'[a].pc = "chunks" /\ job'[a].counted = n /\ job'[a].seen = seen
         \/ job'[a].pc \in {"event", "context"} /\ n = Count[t]
  <2> DEFINE old  == job[a]
             pc   == IF old.endpoint = "full" THEN "context" ELSE "event"
             more == [old EXCEPT !.counted = n]
             last == [old EXCEPT !.counted = 0, !.seen = {}, !.pc = pc]
  <2>1. job' = [job EXCEPT ![a] = IF n < Count[t] THEN more ELSE last] /\ old \in Job
    BY <1>1, <1>2 DEF SaveChunk
  <2>2. job'[a] = (IF n < Count[t] THEN more ELSE last) /\ \A b \in Analyses \ {a} : job'[b] = job[b]
    BY <1>2, <2>1
  <2>3. pc \in {"event", "context"} /\ old.pc = "chunks"
    BY <1>2
  <2> HIDE DEF old, pc
  <2>4. /\ more.pc = old.pc /\ more.seen = old.seen /\ more.counted = n
        /\ more.document = old.document /\ more.text = old.text
    BY <2>1 DEF Job
  <2>5. last.pc = pc /\ last.document = old.document /\ last.text = old.text
    BY <2>1 DEF Job
  <2>6. old.document = e /\ old.text = t /\ seen = old.seen
    BY <1>1 DEF old
  <2> HIDE DEF more, last, seen
  <2>7. CASE n < Count[t]
    BY <2>2, <2>3, <2>4, <2>6, <2>7
  <2>8. CASE ~(n < Count[t])
    <3>1. n = Count[t]
      BY <1>1, <1>2, <2>8
    <3>2. QED
      BY <2>2, <2>3, <2>5, <2>6, <2>8, <3>1
  <2>9. QED
    BY <2>7, <2>8
<1>4. PICK r \in Record : /\ r = RecordOf(a, e, t, n)
                          /\ r.document = e /\ r.text = t /\ r.n = n /\ r.whole = (<<t, n>> \notin Split)
  <2>1. RecordOf(a, e, t, n) \in Record
    BY <1>1, RecordTyped
  <2>2. QED
    BY <2>1 DEF RecordOf
<1>5. \/ /\ <<n, t>> \in seen /\ file' = file
      \/ /\ file'["chunks"].records = Append(s, r)
         /\ file'["documents"] = file["documents"]
  <2>1. \/ /\ <<n, t>> \in seen /\ file' = file
        \/ \E ok \in BOOLEAN : AppendTo("chunks", r, ok) /\ Faulty(~ok)
    BY <1>1, <1>4 DEF SaveChunk
  <2>2. QED
    BY <1>2, <2>1, CleanAppend
<1>6. s \in Seq(Record)
  BY <1>2 DEF FilesOK, FilesTyped, FileOf
<1>7. \A q : Newest(d, q)' <=> Newest(d, q)
  BY <1>5, NewestStays
<1>8. \A b \in Analyses : Later(b, d)' <=> Later(b, d)
  BY <1>1, <1>2, <1>3 DEF Later, Saving
(* Readers get the other chunks as before, and this one with its text.      *)
<1>9. \A m, text : (m = n /\ e = d => text = t) /\ Follows(d, m, text) => Follows(d, m, text)'
  <2>1. CASE file' = file
    BY <2>1, FollowsStays
  <2>2. CASE file'["chunks"].records = Append(s, r)
    <3> SUFFICES ASSUME NEW m, NEW text, m = n /\ e = d => text = t, Follows(d, m, text)
                 PROVE  Follows(d, m, text)'
      OBVIOUS
    <3>1. PICK q : IsLast(s, WholeAt(d, m), q) /\ q.text = text
      BY DEF Follows
    <3>2. CASE r \in WholeAt(d, m)
      <4>1. IsLast(Append(s, r), WholeAt(d, m), r)
        BY <1>6, <3>2, LastAfterAppend
      <4>2. m = n /\ e = d
        BY <1>4, <3>2 DEF WholeAt, ChunkAt
      <4>3. QED
        BY <1>4, <2>2, <4>1, <4>2 DEF Follows
    <3>3. CASE r \notin WholeAt(d, m)
      <4>1. IsLast(Append(s, r), WholeAt(d, m), q)
        BY <1>6, <3>1, <3>3, LastAfterAppend
      <4>2. QED
        BY <2>2, <3>1, <4>1 DEF Follows
    <3>4. QED
      BY <3>2, <3>3
  <2>3. QED
    BY <1>5, <2>1, <2>2
<1>10. ASSUME e = d PROVE /\ Later(a, d) /\ Later(a, d)'
                          /\ \E q : Newest(d, q) /\ q.text = t
                          /\ <<t, n>> \notin Split => Follows(d, n, t)'
  <2>1. Later(a, d)
    BY <1>1, <1>2, <1>10 DEF Later, Saving
  <2>2. \E q : Newest(d, q) /\ q.text = t
    BY <1>1, <2>1 DEF UpToDate, LaterIsNewest
  <2>3. ASSUME <<t, n>> \notin Split PROVE Follows(d, n, t)'
    <3>1. CASE <<n, t>> \in seen /\ file' = file
      <4>1. Follows(d, n, t)
        BY <1>1, <1>2, <2>1, <3>1 DEF UpToDate, SeenIsStored
      <4>2. QED
        BY <1>9, <4>1
    <3>2. CASE file'["chunks"].records = Append(s, r)
      <4>1. r \in WholeAt(d, n)
        BY <1>4, <1>10, <2>3 DEF WholeAt, ChunkAt, Whole
      <4>2. IsLast(Append(s, r), WholeAt(d, n), r)
        BY <1>6, <4>1, LastAfterAppend
      <4>3. QED
        BY <1>4, <3>2, <4>2 DEF Follows
    <3>3. QED
      BY <1>5, <3>1, <3>2
  <2>4. QED
    BY <1>8, <2>1, <2>2, <2>3
<1>11. OneLater(d)' /\ LaterIsNewest(d)'
  <2>1. \A b \in Analyses : job'[b].text = job[b].text
    BY <1>1, <1>3
  <2>2. QED
    BY <1>7, <1>8, <2>1 DEF UpToDate, OneLater, LaterIsNewest
<1>12. NewestFollowed(d)'
  <2> SUFFICES ASSUME NEW q, Newest(d, q)', NEW m \in 1..Count[q.text], <<q.text, m>> \notin Split
               PROVE  Follows(d, m, q.text)' \/ \E b \in Analyses : Later(b, d)' /\ Pending(b, m)'
    BY DEF NewestFollowed
  <2>1. Newest(d, q)
    BY <1>7
  <2>2. Follows(d, m, q.text) \/ \E b \in Analyses : Later(b, d) /\ Pending(b, m)
    BY <2>1 DEF UpToDate, NewestFollowed
  <2>3. e = d => q.text = t
    <3> SUFFICES ASSUME e = d PROVE q.text = t
      OBVIOUS
    <3>1. PICK p : Newest(d, p) /\ p.text = t
      BY <1>10
    <3>2. file["documents"].records \in Seq(Record)
      BY <1>2 DEF FilesOK, FilesTyped, FileOf
    <3>3. p = q
      BY <2>1, <3>1, <3>2, OneLast DEF Newest
    <3>4. QED
      BY <3>1, <3>3
  <2>4. CASE Follows(d, m, q.text)
    BY <1>9, <2>3, <2>4
  <2>5. CASE \E b \in Analyses : Later(b, d) /\ Pending(b, m)
    <3>1. PICK b \in Analyses : Later(b, d) /\ Pending(b, m)
      BY <2>5
    <3>2. CASE b # a
      <4>1. Later(b, d)' /\ Pending(b, m)'
        BY <1>3, <1>8, <3>1, <3>2 DEF Pending
      <4>2. QED
        BY <4>1
    <3>3. CASE b = a
      <4>1. e = d /\ q.text = t
        BY <1>1, <2>3, <3>1, <3>3 DEF Later
      <4>2. m > job[a].counted /\ m <= Count[t] /\ m \in Nat
        BY <1>2, <3>1, <3>3, <4>1 DEF Pending
      <4>3. CASE m = n
        BY <1>10, <4>1, <4>3
      <4>4. CASE m # n
        <5>1. m > n /\ n # Count[t]
          BY <1>1, <1>2, <4>2, <4>4
        <5>2. Pending(a, m)'
          BY <1>3, <5>1 DEF Pending
        <5>3. QED
          BY <1>10, <4>1, <5>2
      <4>5. QED
        BY <4>3, <4>4
    <3>4. QED
      BY <3>2, <3>3
  <2>6. QED
    BY <2>2, <2>4, <2>5
<1>13. SeenIsStored(d)'
  <2> SUFFICES ASSUME NEW b \in Analyses, Later(b, d)', job'[b].pc = "chunks",
                      NEW m, <<m, job'[b].text>> \in job'[b].seen
               PROVE  Follows(d, m, job[b].text)'
    BY DEF SeenIsStored
  <2>1. Later(b, d) /\ job'[b].text = job[b].text /\ job[b].pc = "chunks" /\ job'[b].seen = job[b].seen
    BY <1>1, <1>2, <1>3, <1>8
  <2>2. Follows(d, m, job[b].text)
    BY <2>1 DEF UpToDate, SeenIsStored
  <2>3. m = n /\ e = d => job[b].text = t
    <3> SUFFICES ASSUME e = d PROVE job[b].text = t
      OBVIOUS
    <3>1. b = a
      BY <1>10, <2>1 DEF UpToDate, OneLater
    <3>2. QED
      BY <1>1, <3>1
  <2>4. \A text : text = job[b].text => Follows(d, m, text)'
    BY <1>9, <2>2, <2>3
  <2>5. QED
    BY <2>1, <2>4
<1>14. QED
  BY <1>11, <1>12, <1>13 DEF UpToDate

(* Mishaps and overlaps are never forgotten.                               *)
LEMMA NothingForgotten ==
    ASSUME KnowledgeInv, [Next]_vars, faults' = 0, crashes' = 0
    PROVE  faults = 0 /\ crashes = 0 /\ crashes' = crashes /\ overlapped \subseteq overlapped'
<1>1. faults \in Nat /\ crashes \in Nat
  BY DEF KnowledgeInv, FilesOK, FilesTyped
<1>2. ~Crash
  BY <1>1 DEF Crash
<1>3. crashes' = crashes /\ overlapped \subseteq overlapped'
  BY <1>2 DEF Next, vars, StartAnalysis, StartUpload, SaveDocument, ReadExisting, ReadExistingFails, SaveChunk,
              SaveEvent, SaveContext, Retrieve, RetrieveFails, TellNoData, ProviderHasNoData, TellAnswer, Tell,
              Send, RefuseSend, SendFails, Done
<1>4. faults' = faults \/ \E failed \in BOOLEAN : Faulty(failed)
  <2>1. ASSUME NEW a \in Analyses, SaveDocument(a) \/ ReadExisting(a) \/ SaveChunk(a) \/ SaveEvent(a)
        PROVE  faults' = faults \/ \E failed \in BOOLEAN : Faulty(failed)
    BY <2>1 DEF SaveDocument, ReadExisting, SaveChunk, SaveEvent
  <2>2. ASSUME NEW k \in Asks, NEW question \in Questions, Retrieve(k, question)
        PROVE  faults' = faults \/ \E failed \in BOOLEAN : Faulty(failed)
    BY <2>2 DEF Retrieve
  <2>3. ASSUME NEW k \in Asks, TellNoData(k) \/ ProviderHasNoData(k) \/ TellAnswer(k)
        PROVE  faults' = faults \/ \E failed \in BOOLEAN : Faulty(failed)
    BY <2>3 DEF TellNoData, ProviderHasNoData, TellAnswer, Tell
  <2>4. ASSUME NEW s \in Sends, NEW notice \in Notices, Send(s, notice)
        PROVE  faults' = faults \/ \E failed \in BOOLEAN : Faulty(failed)
    BY <2>4 DEF Send
  <2>5. QED
    BY <1>2, <2>1, <2>2, <2>3, <2>4
       DEF Next, vars, StartAnalysis, StartUpload, ReadExistingFails, SaveContext, RetrieveFails, RefuseSend,
           SendFails, Done
<1>5. faults = 0
  BY <1>1, <1>4 DEF Faulty
<1>6. QED
  BY <1>3, <1>5

(* The chunks and documents are written by analyses only.                  *)
LEMMA OthersWriteElsewhere ==
    ASSUME KnowledgeInv,
           \/ \E a \in Analyses : SaveEvent(a)
           \/ \E k \in Asks : TellNoData(k) \/ ProviderHasNoData(k) \/ TellAnswer(k)
           \/ \E s \in Sends, notice \in Notices : Send(s, notice)
    PROVE  \A f \in {"documents", "chunks"} : file'[f].records = file[f].records
<1>1. ASSUME NEW f \in Files \ {"documents", "chunks"}, NEW r, NEW ok, Appended(f, r, ok)
      PROVE  \A g \in {"documents", "chunks"} : file'[g] = file[g]
  <2>1. \E new : file' = [file EXCEPT ![f] = new]
    BY <1>1 DEF Appended
  <2>2. file \in [Files -> FileOf(Record)]
    BY DEF KnowledgeInv, FilesOK, FilesTyped
  <2>3. QED
    BY <2>1, <2>2 DEF Files
<1>2. {"events", "chats", "notifications"} \subseteq Files \ {"documents", "chunks"}
  BY DEF Files
<1>3. CASE \E a \in Analyses : SaveEvent(a)
  BY <1>1, <1>2, <1>3 DEF SaveEvent, AppendTo
<1>4. CASE \E k \in Asks : TellNoData(k) \/ ProviderHasNoData(k) \/ TellAnswer(k)
  <2>1. PICK k, sources : Tell(k, sources)
    BY <1>4 DEF TellNoData, ProviderHasNoData, TellAnswer
  <2>2. QED
    BY <1>1, <1>2, <2>1 DEF Tell, AppendTo
<1>5. CASE \E s \in Sends, notice \in Notices : Send(s, notice)
  <2>1. PICK s \in Sends, notice \in Notices : Send(s, notice)
    BY <1>5
  <2>2. file' = file \/ \E r, ok : AppendTo("notifications", r, ok)
    BY <2>1 DEF Send
  <2>3. QED
    BY <1>1, <1>2, <2>2 DEF AppendTo
<1>6. QED
  BY <1>3, <1>4, <1>5

LEMMA ChunksStep ==
    ASSUME KnowledgeInv, KnowledgeInv', ChunksInv, [Next]_vars
    PROVE  ChunksInv'
<1> SUFFICES ASSUME faults' = 0, crashes' = 0, NEW d \in Documents, d \notin overlapped'
             PROVE  UpToDate(d)'
  BY DEF ChunksInv
<1>1. faults = 0 /\ crashes = 0 /\ crashes' = crashes /\ d \notin overlapped
  BY NothingForgotten
<1>2. UpToDate(d)
  BY <1>1 DEF ChunksInv
<1>3. job \in [Analyses -> Job] /\ FilesOK'
  BY DEF KnowledgeInv, JobsOK
<1>4. ASSUME NEW a \in Analyses, SaveDocument(a) PROVE UpToDate(d)'
  BY <1>2, <1>3, <1>4, DocumentKeepsUpToDate
<1>5. ASSUME NEW a \in Analyses, ReadExisting(a) PROVE UpToDate(d)'
  BY <1>2, <1>5, ReadingKeepsUpToDate
<1>6. ASSUME NEW a \in Analyses, SaveChunk(a) PROVE UpToDate(d)'
  BY <1>2, <1>3, <1>6, ChunkKeepsUpToDate
<1>7. ASSUME NEW a \in Analyses, ReadExistingFails(a) PROVE FALSE
  BY <1>1, <1>7 DEF ReadExistingFails, KnowledgeInv, FilesOK, Damage, Files
<1>8. ASSUME NEW a \in Analyses, SaveEvent(a) \/ SaveContext(a) PROVE UpToDate(d)'
  <2>1. \A f \in {"documents", "chunks"} : file'[f].records = file[f].records
    <3>1. CASE SaveEvent(a)
      BY <3>1, OthersWriteElsewhere
    <3>2. CASE SaveContext(a)
      BY <3>2 DEF SaveContext
    <3>3. QED
      BY <1>8, <3>1, <3>2
  <2>2. PICK pc \in {"context", "done"} : job' = [job EXCEPT ![a].pc = pc] /\ job[a].pc \in {"event", "context"}
    BY <1>8 DEF SaveEvent, SaveContext, Step
  <2>3. /\ \A b \in Analyses \ {a} : job'[b] = job[b]
        /\ job'[a].pc = pc /\ job'[a].text = job[a].text /\ job'[a].document = job[a].document
    <3> DEFINE old == job[a]
               new == [old EXCEPT !.pc = pc]
    <3>1. job'[a] = new /\ old \in Job /\ \A b \in Analyses \ {a} : job'[b] = job[b]
      BY <1>3, <2>2
    <3> HIDE DEF old
    <3>2. new.pc = pc /\ new.text = old.text /\ new.document = old.document
      BY <3>1 DEF Job
    <3>3. QED
      BY <3>1, <3>2 DEF old
  <2>4. \A b \in Analyses : \/ job'[b] = job[b]
                            \/ ~Later(b, d) /\ ~Later(b, d)'
                            \/ /\ job[b].pc \in {"event", "context"} /\ job'[b].pc \notin {"read", "chunks"}
                               /\ job'[b].text = job[b].text /\ job'[b].document = job[b].document
    BY <2>2, <2>3
  <2>5. QED
    BY <1>2, <2>1, <2>4, OthersKeepUpToDate
<1>9. ASSUME NEW a \in Analyses,
             \/ \E endpoint \in {"contract", "card", "full"}, work \in Works : StartAnalysis(a, endpoint, work)
             \/ \E endpoint \in {"card", "full"}, upload \in Uploads : StartUpload(a, endpoint, upload)
      PROVE  UpToDate(d)'
  <2>1. file' = file /\ job[a].pc = "idle"
    BY <1>9 DEF StartAnalysis, StartUpload
  <2>2. /\ \A b \in Analyses \ {a} : job'[b] = job[b]
        /\ job'[a].pc \in {"document", "refused"}
    <3>1. CASE \E endpoint, work : Admit(a, endpoint, work)
      BY <1>3, <3>1 DEF Admit
    <3>2. CASE Step(a, "refused")
      <4> DEFINE old == job[a]
                 new == [old EXCEPT !.pc = "refused"]
      <4>1. job'[a] = new /\ old \in Job /\ \A b \in Analyses \ {a} : job'[b] = job[b]
        BY <1>3, <3>2 DEF Step
      <4> HIDE DEF old
      <4>2. new.pc = "refused"
        BY <4>1 DEF Job
      <4>3. QED
        BY <4>1, <4>2
    <3>3. QED
      BY <1>9, <3>1, <3>2 DEF StartAnalysis, StartUpload
  <2>3. ~Later(a, d) /\ ~Later(a, d)'
    BY <2>1, <2>2 DEF Later, Saving
  <2>4. \A b \in Analyses : job'[b] = job[b] \/ (~Later(b, d) /\ ~Later(b, d)')
    BY <2>2, <2>3
  <2>5. QED
    BY <1>2, <2>1, <2>4, OthersKeepUpToDate
<1>10. ASSUME UNCHANGED job, \A f \in {"documents", "chunks"} : file'[f].records = file[f].records
       PROVE  UpToDate(d)'
  BY <1>2, <1>10, OthersKeepUpToDate
<1>11. ASSUME NEW k \in Asks,
              \/ \E question \in Questions : Retrieve(k, question) \/ RetrieveFails(k, question)
              \/ TellNoData(k) \/ ProviderHasNoData(k) \/ TellAnswer(k)
       PROVE  UpToDate(d)'
  <2>1. UNCHANGED job
    BY <1>11 DEF Retrieve, RetrieveFails, TellNoData, ProviderHasNoData, TellAnswer, Tell
  <2>2. \A f \in {"documents", "chunks"} : file'[f].records = file[f].records
    <3>1. CASE TellNoData(k) \/ ProviderHasNoData(k) \/ TellAnswer(k)
      BY <3>1, OthersWriteElsewhere
    <3>2. CASE \E question \in Questions : Retrieve(k, question) \/ RetrieveFails(k, question)
      BY <3>2 DEF Retrieve, RetrieveFails
    <3>3. QED
      BY <1>11, <3>1, <3>2
  <2>3. QED
    BY <1>10, <2>1, <2>2
<1>12. ASSUME NEW s \in Sends, NEW notice \in Notices,
              Send(s, notice) \/ RefuseSend(s, notice) \/ SendFails(s, notice)
       PROVE  UpToDate(d)'
  <2>1. UNCHANGED job
    BY <1>12 DEF Send, RefuseSend, SendFails
  <2>2. \A f \in {"documents", "chunks"} : file'[f].records = file[f].records
    <3>1. CASE Send(s, notice)
      BY <3>1, OthersWriteElsewhere
    <3>2. CASE RefuseSend(s, notice) \/ SendFails(s, notice)
      BY <3>2 DEF RefuseSend, SendFails
    <3>3. QED
      BY <1>12, <3>1, <3>2
  <2>3. QED
    BY <1>10, <2>1, <2>2
<1>13. ~Crash
  BY <1>1 DEF Crash
<1>14. CASE UNCHANGED vars
  BY <1>10, <1>14 DEF vars
<1>15. QED
  BY <1>4, <1>5, <1>6, <1>7, <1>8, <1>9, <1>11, <1>12, <1>13, <1>14 DEF Next, Done

(* Without faults and crashes, the chunks a reader gets of a document that  *)
(* was never saved by two analyses at a time are those of its latest text:  *)
(* the comparison with the stored chunks drops none that are needed.        *)
THEOREM ChunksFollow == Spec => []ChunksFollowTheDocument
<1>1. Init => ChunksInv
  <2> SUFFICES ASSUME Init, NEW d \in Documents PROVE UpToDate(d)
    BY DEF ChunksInv
  <2>1. \A a \in Analyses : ~Later(a, d)
    BY DEF Init, NoJob, Later, Saving
  <2>2. file["documents"].records = <<>>
    BY DEF Init, EmptyFile, Files
  <2>3. \A r : ~Newest(d, r)
    BY <2>2 DEF Newest, IsLast
  <2>4. QED
    BY <2>1, <2>3 DEF UpToDate, OneLater, LaterIsNewest, NewestFollowed, SeenIsStored
<1>2. KnowledgeInv /\ KnowledgeInv' /\ ChunksInv /\ [Next]_vars => ChunksInv'
  BY ChunksStep
<1>3. KnowledgeInv /\ ChunksInv => ChunksFollowTheDocument
  <2> DEFINE docs      == file["documents"].records
             newest(d) == LatestOf(docs, About(docs, d), None)
             stored(d) == Latest(Readable(file["chunks"]), d)
  <2> SUFFICES ASSUME KnowledgeInv, ChunksInv, NEW d \in Documents \ overlapped, faults = 0, crashes = 0,
                      \A a \in Analyses : job[a].pc \in Saving => job[a].document # d,
                      newest(d) # None, NEW n \in 1..Count[newest(d).text],
                      <<newest(d).text, n>> \notin Split
               PROVE  [document |-> d, n |-> n, text |-> newest(d).text] \in ToSet(stored(d))
    BY DEF ChunksFollowTheDocument
  <2>1. docs \in Seq(Record) /\ FilesOK
    BY DEF KnowledgeInv, FilesOK, FilesTyped, FileOf, Files
  <2>2. Newest(d, newest(d))
    <3> DEFINE at == About(docs, d)
    <3>1. at = {i \in DOMAIN docs : docs[i] \in Of(d)}
      BY <2>1, AboutIsOf
    <3>2. at # {} /\ newest(d) = docs[Max(at)]
      BY DEF LatestOf
    <3> HIDE DEF at, docs, newest
    <3>3. IsLast(docs, Of(d), docs[Max(at)])
      BY <2>1, <3>1, <3>2, LastAtMax
    <3>4. QED
      BY <3>2, <3>3 DEF Newest, docs
  <2> DEFINE r == newest(d)
  <2>3. \A a \in Analyses : ~Later(a, d)
    BY DEF Later
  <2>4. UpToDate(d)
    BY DEF ChunksInv
  <2> HIDE DEF newest
  <2>5. Follows(d, n, r.text)
    BY <2>2, <2>3, <2>4 DEF UpToDate, NewestFollowed
  <2>6. PICK q : IsLast(file["chunks"].records, WholeAt(d, n), q) /\ q.text = r.text
    BY <2>5 DEF Follows
  <2>7. q \in Record /\ q.n = n
    BY <2>6 DEF IsLast, WholeAt, ChunkAt
  <2>8. PICK k \in DOMAIN stored(d) : stored(d)[k] = AsChunk(d, q)
    BY <2>1, <2>6, <2>7, StoredItems
  <2>9. stored(d)[k] = [document |-> d, n |-> n, text |-> r.text]
    BY <2>6, <2>7, <2>8 DEF AsChunk
  <2> HIDE DEF stored
  <2>10. QED
    BY <2>8, <2>9 DEF ToSet
<1>4. QED
  BY <1>1, <1>2, <1>3, AlwaysKnowledgeInv, PTL DEF Spec
===============================================================================
