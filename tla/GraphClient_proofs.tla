------------------------- MODULE GraphClient_proofs -------------------------
(***************************************************************************)
(* Proofs about the ways a client writes, for every set of documents,       *)
(* clients, fields, transactions and batches and every assignment of        *)
(* registries to clients: GraphClient itself, and Transactions and Batches  *)
(* through the instances MCClientRaces makes of them.                       *)
(***************************************************************************)
EXTENDS MCClientRaces, Sequences, TLAPS

-----------------------------------------------------------------------------
(* Partial functions.                                                       *)

\* A partial function is a function on some subset of its source.
LEMMA PFunIntro ==
  ASSUME NEW S, NEW T, NEW D, D \subseteq S, NEW h, h \in [D -> T]
  PROVE  h \in PFun(S, T)
  BY DEF PFun

LEMMA PFunElim ==
  ASSUME NEW S, NEW T, NEW h \in PFun(S, T)
  PROVE  /\ DOMAIN h \subseteq S
         /\ h \in [DOMAIN h -> T]
         /\ \A x \in DOMAIN h : h[x] \in T
  BY DEF PFun

LEMMA NoneType ==
  ASSUME NEW S, NEW T
  PROVE  /\ None \in PFun(S, T)
         /\ DOMAIN None = {}
<1>1. None \in [{} -> T] /\ DOMAIN None = {}
  BY DEF None
<1>2. QED
  BY <1>1, PFunIntro

\* What restriction returns.
LEMMA OnlyIs ==
  ASSUME NEW h, NEW R
  PROVE  /\ DOMAIN Only(h, R) = DOMAIN h \cap R
         /\ \A x \in DOMAIN h \cap R : Only(h, R)[x] = h[x]
  BY DEF Only

\* Both stay within the partial functions.
LEMMA OnlyType ==
  ASSUME NEW S, NEW T, NEW h \in PFun(S, T), NEW R
  PROVE  Only(h, R) \in PFun(S, T)
<1>1. Only(h, R) \in [DOMAIN h \cap R -> T]
  BY PFunElim DEF Only
<1>2. DOMAIN h \cap R \subseteq S
  BY PFunElim
<1>3. QED
  BY <1>1, <1>2, PFunIntro

LEMMA OverType ==
  ASSUME NEW S, NEW T, NEW h \in PFun(S, T), NEW k \in PFun(S, T)
  PROVE  Over(h, k) \in PFun(S, T)
<1>1. /\ \A x \in DOMAIN h : h[x] \in T
      /\ \A x \in DOMAIN k : k[x] \in T
      /\ DOMAIN h \cup DOMAIN k \subseteq S
  BY PFunElim
<1>2. Over(h, k) \in [DOMAIN h \cup DOMAIN k -> T]
  BY <1>1 DEF Over
<1>3. QED
  BY <1>1, <1>2, PFunIntro

-----------------------------------------------------------------------------
(* Migration.                                                               *)

\* Migrating keeps the fields and the writes behind them.
LEMMA UpgradeKeeps ==
  ASSUME NEW data \in Data, NEW to \in 0..MaxVersion
  PROVE  /\ Upgrade(data, to) \in Data
         /\ DOMAIN Upgrade(data, to) = DOMAIN data
         /\ \A x \in DOMAIN data : /\ Upgrade(data, to)[x].val = data[x].val
                                   /\ Upgrade(data, to)[x].shape >= to
<1>1. /\ \A x \in DOMAIN data : data[x] \in Cell
      /\ DOMAIN data \subseteq Fields
  BY PFunElim DEF Data
<1>2. DOMAIN Upgrade(data, to) = DOMAIN data
  BY DEF Upgrade
<1>3. ASSUME NEW x \in DOMAIN data
      PROVE  /\ Upgrade(data, to)[x] \in Cell
             /\ Upgrade(data, to)[x].val = data[x].val
             /\ Upgrade(data, to)[x].shape >= to
  BY <1>1, ClientAssumption DEF Upgrade, Cell
<1>4. Upgrade(data, to) \in [DOMAIN data -> Cell]
  BY <1>3, <1>2 DEF Upgrade
<1>5. QED
  BY <1>1, <1>2, <1>3, <1>4, PFunIntro DEF Data

LEMMA MigratedKeeps ==
  ASSUME NEW c \in Clients, NEW rec \in Record
  PROVE  /\ Migrated(c, rec) \in Record
         /\ Vals(Migrated(c, rec)) = Vals(rec)
<1>1. Version[c] \in 0..MaxVersion /\ rec.data \in Data
  BY ClientAssumption DEF Record
<1>2. CASE Behind(c, rec)
  <2>1. Migrated(c, rec) = [v |-> Version[c], data |-> Upgrade(rec.data, Version[c])]
    BY <1>2 DEF Migrated
  <2>2. QED
    BY <1>1, <2>1, UpgradeKeeps DEF Record, Vals
<1>3. CASE ~Behind(c, rec)
  BY <1>3 DEF Migrated
<1>4. QED
  BY <1>2, <1>3

\* What a read sends back has a snapshot's type, covers only what it fetched,
\* and carries the content it fetched.
LEMMA WriteBacksKeep ==
  ASSUME NEW c \in Clients, NEW snaps \in PFun(Docs, Snapshot)
  PROVE  /\ WriteBacks(c, snaps) \in PFun(Docs, Snapshot)
         /\ DOMAIN WriteBacks(c, snaps) \subseteq DOMAIN snaps
         /\ \A d \in DOMAIN WriteBacks(c, snaps) :
              /\ WriteBacks(c, snaps)[d].at = snaps[d].at
              /\ WriteBacks(c, snaps)[d].rec = Migrated(c, snaps[d].rec)
              /\ Vals(WriteBacks(c, snaps)[d].rec) = Vals(snaps[d].rec)
<1> DEFINE stale == { d \in DOMAIN snaps : c \in WritesBack /\ Behind(c, snaps[d].rec) }
<1>1. WriteBacks(c, snaps) =
        [d \in stale |-> [rec |-> Migrated(c, snaps[d].rec), at |-> snaps[d].at]]
  BY DEF WriteBacks
<1>2. stale \subseteq Docs /\ stale \subseteq DOMAIN snaps
  BY PFunElim
<1>3. ASSUME NEW d \in DOMAIN snaps
      PROVE  snaps[d].rec \in Record /\ snaps[d].at \in 0..MaxWrites
  <2>1. snaps[d] \in Snapshot
    BY PFunElim
  <2>2. QED
    BY <2>1 DEF Snapshot
<1>4. ASSUME NEW d \in stale
      PROVE  [rec |-> Migrated(c, snaps[d].rec), at |-> snaps[d].at] \in Snapshot
  <2>1. snaps[d].rec \in Record /\ snaps[d].at \in 0..MaxWrites
    BY <1>2, <1>3
  <2>2. Migrated(c, snaps[d].rec) \in Record
    BY <2>1, MigratedKeeps
  <2>3. QED
    BY <2>1, <2>2 DEF Snapshot
<1>5. ASSUME NEW d \in stale
      PROVE  Vals(Migrated(c, snaps[d].rec)) = Vals(snaps[d].rec)
  <2>1. snaps[d].rec \in Record
    BY <1>2, <1>3
  <2>2. QED
    BY <2>1, MigratedKeeps
<1> HIDE DEF stale
<1>6. WriteBacks(c, snaps) \in [stale -> Snapshot]
  BY <1>1, <1>4
<1>7. WriteBacks(c, snaps) \in PFun(Docs, Snapshot)
  BY <1>2, <1>6, PFunIntro
<1>8. DOMAIN WriteBacks(c, snaps) = stale
  BY <1>1
<1>9. ASSUME NEW d \in stale
      PROVE  /\ WriteBacks(c, snaps)[d].at = snaps[d].at
             /\ WriteBacks(c, snaps)[d].rec = Migrated(c, snaps[d].rec)
  BY <1>1
<1>10. QED
  BY <1>2, <1>5, <1>7, <1>8, <1>9

-----------------------------------------------------------------------------
(* Type correctness.                                                        *)

USE ClientAssumption

LEMMA StoredType ==
  ASSUME TypeOK, NEW d \in DOMAIN graph
  PROVE  /\ d \in Docs
         /\ graph[d] \in Record
         /\ graph[d].v \in 0..MaxVersion
         /\ graph[d].data \in Data
<1>1. graph \in PFun(Docs, Record)
  BY DEF TypeOK
<1>2. d \in Docs /\ graph[d] \in Record
  BY <1>1, PFunElim
<1>3. QED
  BY <1>2 DEF Record

LEMMA PayloadType ==
  ASSUME TypeOK, NEW c \in Clients, NEW d \in Docs, writes[d] < MaxWrites,
         NEW F \in SUBSET Fields
  PROVE  /\ Payload(c, d, F) \in Data
         /\ DOMAIN Payload(c, d, F) = F
<1>1. [shape |-> Version[c], val |-> writes[d] + 1] \in Cell
  BY DEF TypeOK, Cell
<1>2. Payload(c, d, F) \in [F -> Cell] /\ DOMAIN Payload(c, d, F) = F
  BY <1>1 DEF Payload
<1>3. QED
  BY <1>2, PFunIntro DEF Data

LEMMA StoreType ==
  ASSUME TypeOK, NEW d \in Docs, NEW rec \in Record, Store(d, rec)
  PROVE  /\ graph' \in PFun(Docs, Record)
         /\ DOMAIN graph' = DOMAIN graph \cup {d}
         /\ \A x \in DOMAIN graph \ {d} : graph'[x] = graph[x]
         /\ graph'[d] = rec
<1> DEFINE one == [x \in {d} |-> rec]
<1>1. one \in PFun(Docs, Record) /\ DOMAIN one = {d} /\ one[d] = rec
  <2>1. one \in [{d} -> Record]
    OBVIOUS
  <2>2. QED
    BY <2>1, PFunIntro
<1>2. graph' = Over(graph, one)
  BY DEF Store
<1> HIDE DEF one
<1>3. graph \in PFun(Docs, Record)
  BY DEF TypeOK
<1>4. Over(graph, one) \in PFun(Docs, Record)
  BY <1>1, <1>3, OverType
<1>5. /\ DOMAIN Over(graph, one) = DOMAIN graph \cup {d}
      /\ Over(graph, one)[d] = one[d]
      /\ \A x \in DOMAIN graph \ {d} : Over(graph, one)[x] = graph[x]
  BY <1>1 DEF Over
<1>6. QED
  BY <1>1, <1>2, <1>4, <1>5

LEMMA CountWriteType ==
  ASSUME TypeOK, NEW d \in Docs, CountWrite(d)
  PROVE  /\ writes' \in [Docs -> 0..MaxWrites]
         /\ writes'[d] = writes[d] + 1
         /\ \A x \in Docs \ {d} : writes'[x] = writes[x]
         /\ reading' = reading /\ writeBack' = writeBack /\ raced' = raced
  BY DEF CountWrite, TypeOK

\* An application write stores one record and leaves the reads alone.
LEMMA PutType ==
  ASSUME TypeOK, NEW c \in Clients, NEW d \in Docs, NEW F \in SUBSET Fields,
         Put(c, d, F)
  PROVE  \E rec \in Record : Store(d, rec) /\ CountWrite(d)
<1> DEFINE old == IF d \in DOMAIN graph THEN graph[d] ELSE [v |-> 0, data |-> None]
           new == [v    |-> IF Version[c] > 0 THEN Version[c] ELSE old.v,
                   data |-> Over(old.data, Payload(c, d, F))]
<1>1. Store(d, new) /\ CountWrite(d)
  BY DEF Put
<1>2. old.v \in 0..MaxVersion /\ old.data \in Data
  <2>1. CASE d \in DOMAIN graph
    BY <2>1, StoredType
  <2>2. CASE d \notin DOMAIN graph
    BY <2>2, NoneType DEF Data
  <2>3. QED
    BY <2>1, <2>2
<1> HIDE DEF old
<1>3. Payload(c, d, F) \in Data
  BY <1>1, PayloadType DEF CountWrite
<1>4. Over(old.data, Payload(c, d, F)) \in Data
  BY <1>2, <1>3, OverType DEF Data
<1>5. new \in Record
  BY <1>2, <1>4 DEF Record
<1>6. QED
  BY <1>1, <1>5

LEMMA ReplaceType ==
  ASSUME TypeOK, NEW c \in Clients, NEW d \in Docs, NEW F \in SUBSET Fields,
         Replace(c, d, F)
  PROVE  \E rec \in Record : Store(d, rec) /\ CountWrite(d)
<1>1. Payload(c, d, F) \in Data
  BY PayloadType DEF Replace, CountWrite
<1>2. [v |-> Version[c], data |-> Payload(c, d, F)] \in Record
  BY <1>1 DEF Record
<1>3. QED
  BY <1>2 DEF Replace

LEMMA UpdateType ==
  ASSUME TypeOK, NEW c \in Clients, NEW d \in Docs,
         NEW F \in SUBSET Fields, NEW D \in SUBSET Fields, Update(c, d, F, D)
  PROVE  /\ d \in DOMAIN graph
         /\ \E rec \in Record : Store(d, rec) /\ CountWrite(d)
<1> DEFINE new == [v    |-> graph[d].v,
                   data |-> Over(Only(graph[d].data, Fields \ D), Payload(c, d, F))]
<1>1. Store(d, new) /\ CountWrite(d) /\ d \in DOMAIN graph
  BY DEF Update
<1>2. graph[d].v \in 0..MaxVersion /\ graph[d].data \in Data
  BY <1>1, StoredType
<1>3. Payload(c, d, F) \in Data
  BY <1>1, PayloadType DEF CountWrite
<1>4. new.data \in Data
  <2>1. Only(graph[d].data, Fields \ D) \in Data
    BY <1>2, OnlyType DEF Data
  <2>2. QED
    BY <2>1, <1>3, OverType DEF Data
<1>5. new \in Record
  BY <1>2, <1>4 DEF Record
<1>6. QED
  BY <1>1, <1>5

\* Any such write keeps the types.
LEMMA WriteKeepsType ==
  ASSUME TypeOK, NEW d \in Docs, NEW rec \in Record, Store(d, rec), CountWrite(d)
  PROVE  TypeOK'
<1>1. graph' \in PFun(Docs, Record)
  BY StoreType
<1>2. QED
  BY <1>1, CountWriteType DEF TypeOK

LEMMA RemoveType ==
  ASSUME TypeOK, NEW d \in Docs, Remove(d)
  PROVE  /\ TypeOK'
         /\ CountWrite(d)
         /\ DOMAIN graph' = DOMAIN graph \ {d}
         /\ \A x \in DOMAIN graph \ {d} : graph'[x] = graph[x]
<1>1. graph' = Only(graph, Docs \ {d}) /\ CountWrite(d)
  BY DEF Remove
<1>2. graph \in PFun(Docs, Record)
  BY DEF TypeOK
<1>3. graph' \in PFun(Docs, Record)
  BY <1>1, <1>2, OnlyType
<1>4. DOMAIN graph \cap (Docs \ {d}) = DOMAIN graph \ {d}
  BY <1>2, PFunElim
<1>5. TypeOK'
  BY <1>1, <1>3, CountWriteType DEF TypeOK
<1>6. /\ DOMAIN graph' = DOMAIN graph \ {d}
      /\ \A x \in DOMAIN graph \ {d} : graph'[x] = graph[x]
  BY <1>1, <1>4, OnlyIs
<1>7. QED
  BY <1>1, <1>5, <1>6

\* A read fetches snapshots of the present, and nothing else changes.
LEMMA ReadType ==
  ASSUME TypeOK, NEW c \in Clients, NEW S \in SUBSET Docs, Read(c, S)
  PROVE  /\ TypeOK'
         /\ DOMAIN reading'[c] \subseteq DOMAIN graph
         /\ \A d \in DOMAIN reading'[c] :
              reading'[c][d] = [rec |-> graph[d], at |-> writes[d]]
         /\ \A b \in Clients \ {c} : reading'[b] = reading[b]
<1> DEFINE snaps == [d \in S \cap DOMAIN graph |-> [rec |-> graph[d], at |-> writes[d]]]
<1>1. reading' = [reading EXCEPT ![c] = snaps]
  BY DEF Read
<1>2. \A d \in S \cap DOMAIN graph : [rec |-> graph[d], at |-> writes[d]] \in Snapshot
  <2> TAKE d \in S \cap DOMAIN graph
  <2>1. d \in Docs /\ graph[d] \in Record
    BY StoredType
  <2>2. writes[d] \in 0..MaxWrites
    BY <2>1 DEF TypeOK
  <2>3. QED
    BY <2>1, <2>2 DEF Snapshot
<1>3. snaps \in [S \cap DOMAIN graph -> Snapshot]
  BY <1>2
<1>4. snaps \in PFun(Docs, Snapshot)
  BY <1>3, PFunIntro
<1>5. reading' \in [Clients -> PFun(Docs, Snapshot)]
  BY <1>1, <1>4 DEF TypeOK
<1>6. TypeOK'
  BY <1>5 DEF TypeOK, Read
<1>7. reading'[c] = snaps /\ \A b \in Clients \ {c} : reading'[b] = reading[b]
  BY <1>1 DEF TypeOK
<1>8. QED
  BY <1>6, <1>7

\* An answer sends write-backs of what was fetched.
LEMMA AnswerType ==
  ASSUME TypeOK, NEW c \in Clients, Answer(c)
  PROVE  /\ TypeOK'
         /\ reading'[c] = None
         /\ \A b \in Clients \ {c} : /\ reading'[b] = reading[b]
                                     /\ writeBack'[b] = writeBack[b]
         /\ \A d \in DOMAIN writeBack'[c] :
              \/ d \in DOMAIN writeBack[c] /\ writeBack'[c][d] = writeBack[c][d]
              \/ /\ d \in DOMAIN reading[c]
                 /\ writeBack'[c][d].at = reading[c][d].at
                 /\ writeBack'[c][d].rec = Migrated(c, reading[c][d].rec)
                 /\ Vals(writeBack'[c][d].rec) = Vals(reading[c][d].rec)
<1> DEFINE sent == IF Rejects(c, reading[c]) THEN None ELSE WriteBacks(c, reading[c])
<1>1. /\ writeBack' = [writeBack EXCEPT ![c] = Over(@, sent)]
      /\ reading' = [reading EXCEPT ![c] = None]
      /\ UNCHANGED <<graph, writes, raced>>
  BY DEF Answer
<1>2. reading[c] \in PFun(Docs, Snapshot) /\ writeBack[c] \in PFun(Docs, Snapshot)
  BY DEF TypeOK
<1>3. /\ sent \in PFun(Docs, Snapshot)
      /\ \A d \in DOMAIN sent :
           /\ d \in DOMAIN reading[c]
           /\ sent[d].at = reading[c][d].at
           /\ sent[d].rec = Migrated(c, reading[c][d].rec)
           /\ Vals(sent[d].rec) = Vals(reading[c][d].rec)
  <2>1. CASE Rejects(c, reading[c])
    BY <2>1, NoneType
  <2>2. CASE ~Rejects(c, reading[c])
    <3>1. sent = WriteBacks(c, reading[c])
      BY <2>2
    <3>2. QED
      BY <1>2, <3>1, WriteBacksKeep
  <2>3. QED
    BY <2>1, <2>2
<1> HIDE DEF sent
<1>4. Over(writeBack[c], sent) \in PFun(Docs, Snapshot)
  BY <1>2, <1>3, OverType
<1>5. None \in PFun(Docs, Snapshot)
  BY NoneType
<1>6. /\ writeBack'[c] = Over(writeBack[c], sent)
      /\ reading'[c] = None
      /\ \A b \in Clients \ {c} : /\ reading'[b] = reading[b]
                                  /\ writeBack'[b] = writeBack[b]
  BY <1>1 DEF TypeOK
<1>7. /\ writeBack' \in [Clients -> PFun(Docs, Snapshot)]
      /\ reading' \in [Clients -> PFun(Docs, Snapshot)]
  BY <1>1, <1>4, <1>5 DEF TypeOK
<1>8. TypeOK'
  BY <1>1, <1>7 DEF TypeOK
<1>9. \A d \in DOMAIN writeBack'[c] :
        \/ d \in DOMAIN writeBack[c] /\ writeBack'[c][d] = writeBack[c][d]
        \/ d \in DOMAIN sent /\ writeBack'[c][d] = sent[d]
  BY <1>6 DEF Over
<1>10. QED
  BY <1>3, <1>6, <1>8, <1>9

\* A write-back replaces the record of a document that exists, or nothing.
LEMMA LandType ==
  ASSUME TypeOK, NEW c \in Clients, NEW d \in Docs, WriteBackLands(c, d)
  PROVE  /\ TypeOK'
         /\ d \in DOMAIN writeBack[c]
         /\ DOMAIN graph' = DOMAIN graph
         /\ \A x \in DOMAIN graph \ {d} : graph'[x] = graph[x]
         /\ d \in DOMAIN graph => graph'[d] = writeBack[c][d].rec
         /\ \A b \in Clients : \A x \in DOMAIN writeBack'[b] :
              /\ x \in DOMAIN writeBack[b]
              /\ writeBack'[b][x] = writeBack[b][x]
<1> DEFINE snap == writeBack[c][d]
<1>1. /\ d \in DOMAIN writeBack[c]
      /\ graph' = ReplaceData(d, snap.rec)
      /\ writeBack' = [writeBack EXCEPT ![c] = Only(@, Docs \ {d})]
      /\ raced' \in {raced, raced \cup {d}}
      /\ UNCHANGED <<reading, writes>>
  BY DEF WriteBackLands
<1>2. writeBack[c] \in PFun(Docs, Snapshot) /\ graph \in PFun(Docs, Record)
  BY DEF TypeOK
<1>3. snap \in Snapshot
  BY <1>1, <1>2, PFunElim
<1>4. snap.rec \in Record
  BY <1>3 DEF Snapshot
<1> HIDE DEF snap
<1>5. graph \in [DOMAIN graph -> Record] /\ DOMAIN graph \subseteq Docs
  BY <1>2, PFunElim
<1>6. /\ graph' \in [DOMAIN graph -> Record]
      /\ DOMAIN graph' = DOMAIN graph
      /\ \A x \in DOMAIN graph \ {d} : graph'[x] = graph[x]
      /\ d \in DOMAIN graph => graph'[d] = snap.rec
  BY <1>1, <1>4, <1>5 DEF ReplaceData
<1>7. graph' \in PFun(Docs, Record)
  BY <1>5, <1>6, PFunIntro
<1>8. Only(writeBack[c], Docs \ {d}) \in PFun(Docs, Snapshot)
  BY <1>2, OnlyType
<1>9. writeBack' \in [Clients -> PFun(Docs, Snapshot)]
  BY <1>1, <1>8 DEF TypeOK
<1>10. TypeOK'
  BY <1>1, <1>7, <1>9 DEF TypeOK
<1>11. ASSUME NEW b \in Clients, NEW x \in DOMAIN writeBack'[b]
       PROVE  x \in DOMAIN writeBack[b] /\ writeBack'[b][x] = writeBack[b][x]
  BY <1>1, <1>11 DEF Only, TypeOK
<1>12. QED
  BY <1>1, <1>6, <1>10, <1>11 DEF snap

LEMMA FailType ==
  ASSUME TypeOK, NEW c \in Clients, NEW d \in Docs, WriteBackFails(c, d)
  PROVE  /\ TypeOK'
         /\ \A b \in Clients : \A x \in DOMAIN writeBack'[b] :
              /\ x \in DOMAIN writeBack[b]
              /\ writeBack'[b][x] = writeBack[b][x]
<1>1. /\ writeBack' = [writeBack EXCEPT ![c] = Only(@, Docs \ {d})]
      /\ UNCHANGED <<graph, reading, writes, raced>>
  BY DEF WriteBackFails
<1>2. writeBack[c] \in PFun(Docs, Snapshot)
  BY DEF TypeOK
<1>3. Only(writeBack[c], Docs \ {d}) \in PFun(Docs, Snapshot)
  BY <1>2, OnlyType
<1>4. writeBack' \in [Clients -> PFun(Docs, Snapshot)]
  BY <1>1, <1>3 DEF TypeOK
<1>5. TypeOK'
  BY <1>1, <1>4 DEF TypeOK
<1>6. ASSUME NEW b \in Clients, NEW x \in DOMAIN writeBack'[b]
      PROVE  x \in DOMAIN writeBack[b] /\ writeBack'[b][x] = writeBack[b][x]
  BY <1>1, <1>6 DEF Only, TypeOK
<1>7. QED
  BY <1>5, <1>6

-----------------------------------------------------------------------------
(* The steps of Next, sorted by what they may change.                       *)

\* An application write to d: counted, and no other document touched.
Writes(d) ==
  /\ CountWrite(d)
  /\ \A x \in Docs \ {d} : /\ x \in DOMAIN graph <=> x \in DOMAIN graph'
                           /\ x \in DOMAIN graph => graph'[x] = graph[x]

LEMMA StoreWrites ==
  ASSUME TypeOK, NEW d \in Docs, NEW rec \in Record, Store(d, rec), CountWrite(d)
  PROVE  TypeOK' /\ Writes(d)
<1>1. /\ DOMAIN graph' = DOMAIN graph \cup {d}
      /\ \A x \in DOMAIN graph \ {d} : graph'[x] = graph[x]
  BY StoreType
<1>2. TypeOK'
  BY WriteKeepsType
<1>3. QED
  BY <1>1, <1>2 DEF Writes

LEMMA NextCases ==
  ASSUME TypeOK, Next
  PROVE  \/ \E d \in Docs : TypeOK' /\ Writes(d)
         \/ \E c \in Clients, S \in SUBSET Docs : Read(c, S)
         \/ \E c \in Clients : Answer(c)
         \/ \E c \in Clients, d \in Docs : WriteBackLands(c, d)
         \/ \E c \in Clients, d \in Docs : WriteBackFails(c, d)
<1>1. CASE Delete
  <2>1. PICK d \in Docs : Remove(d)
    BY <1>1 DEF Delete
  <2>2. TypeOK' /\ Writes(d)
    BY <2>1, RemoveType DEF Writes
  <2>3. QED
    BY <2>2
<1>2. ASSUME NEW c \in Clients, Merge(c)
      PROVE  \E d \in Docs : TypeOK' /\ Writes(d)
  <2>1. PICK d \in Docs, F \in SUBSET Fields : Put(c, d, F)
    BY <1>2 DEF Merge
  <2>2. PICK rec \in Record : Store(d, rec) /\ CountWrite(d)
    BY <2>1, PutType
  <2>3. QED
    BY <2>2, StoreWrites
<1>3. ASSUME NEW c \in Clients, Rewrite(c)
      PROVE  \E d \in Docs : TypeOK' /\ Writes(d)
  <2>1. PICK d \in Docs, F \in SUBSET Fields : Replace(c, d, F)
    BY <1>3 DEF Rewrite
  <2>2. PICK rec \in Record : Store(d, rec) /\ CountWrite(d)
    BY <2>1, ReplaceType
  <2>3. QED
    BY <2>2, StoreWrites
<1>4. ASSUME NEW c \in Clients, NEW d \in Docs,
             NEW F \in SUBSET Fields, NEW D \in SUBSET Fields, Update(c, d, F, D)
      PROVE  TypeOK' /\ Writes(d)
  <2>1. PICK rec \in Record : Store(d, rec) /\ CountWrite(d)
    BY <1>4, UpdateType
  <2>2. QED
    BY <2>1, StoreWrites
<1>5. QED
  BY <1>1, <1>2, <1>3, <1>4 DEF Next, Step

-----------------------------------------------------------------------------
(* Type correctness: every state has the types TypeOK states, whatever the  *)
(* clients' registries are and however write-backs and writes interleave.   *)

LEMMA InitType == Init => TypeOK
<1> SUFFICES ASSUME Init
             PROVE  TypeOK
  OBVIOUS
<1>1. ASSUME NEW n \in 0..MaxVersion, NEW F \in SUBSET Fields
      PROVE  [v |-> n, data |-> [x \in F |-> [shape |-> n, val |-> 0]]] \in Record
  <2>1. [shape |-> n, val |-> 0] \in Cell
    BY DEF Cell
  <2>2. [x \in F |-> [shape |-> n, val |-> 0]] \in [F -> Cell]
    BY <2>1
  <2>3. [x \in F |-> [shape |-> n, val |-> 0]] \in Data
    BY <2>2, PFunIntro DEF Data
  <2>4. QED
    BY <2>3 DEF Record
<1>2. Legacy \subseteq Record
  BY <1>1 DEF Legacy
<1>3. graph \in PFun(Docs, Record)
  <2>1. graph \in PFun(Docs, Legacy)
    BY DEF Init
  <2>2. DOMAIN graph \subseteq Docs /\ graph \in [DOMAIN graph -> Legacy]
    BY <2>1, PFunElim
  <2>3. graph \in [DOMAIN graph -> Record]
    BY <1>2, <2>2
  <2>4. QED
    BY <2>2, <2>3, PFunIntro
<1>4. None \in PFun(Docs, Snapshot)
  BY NoneType
<1>5. QED
  BY <1>3, <1>4 DEF Init, TypeOK

LEMMA NextType ==
  ASSUME TypeOK, [Next]_vars
  PROVE  TypeOK'
<1>1. CASE Next
  BY <1>1, NextCases, ReadType, AnswerType, LandType, FailType
<1>2. CASE UNCHANGED vars
  BY <1>2 DEF vars, TypeOK
<1>3. QED
  BY <1>1, <1>2

\* TypeOK holds in every reachable state.
THEOREM TypeCorrect == Spec => []TypeOK
  BY InitType, NextType, PTL DEF Spec

-----------------------------------------------------------------------------
(* Existence.                                                               *)

LEMMA StepExistence ==
  ASSUME TypeOK, [Next]_vars
  PROVE  \A d \in Docs : (d \in DOMAIN graph) # (d \in DOMAIN graph')
                           => writes'[d] > writes[d]
<1> SUFFICES ASSUME NEW d \in Docs, (d \in DOMAIN graph) # (d \in DOMAIN graph')
             PROVE  writes'[d] > writes[d]
  OBVIOUS
<1>1. ASSUME NEW e \in Docs, Writes(e)
      PROVE  writes'[d] > writes[d]
  <2>1. d = e
    BY <1>1 DEF Writes
  <2>2. writes'[d] = writes[d] + 1 /\ writes[d] \in Nat
    BY <1>1, <2>1, CountWriteType DEF Writes, TypeOK
  <2>3. QED
    BY <2>2
<1>2. CASE UNCHANGED graph
  BY <1>2
<1>3. ASSUME NEW c \in Clients, NEW e \in Docs, WriteBackLands(c, e)
      PROVE  FALSE
  BY <1>3, LandType
<1>4. CASE UNCHANGED vars
  BY <1>2, <1>4 DEF vars
<1>5. QED
  BY <1>1, <1>2, <1>3, <1>4, NextCases DEF Read, Answer, WriteBackFails

\* Only the application's writes create and remove documents: no write-back
\* brings a removed document back.
THEOREM ExistenceTheorem == Spec => OnlyWritesDecideExistence
<1>1. TypeOK /\ [Next]_vars =>
        [\A d \in Docs : (d \in DOMAIN graph) # (d \in DOMAIN graph')
                           => writes'[d] > writes[d]]_vars
  BY StepExistence
<1>2. QED
  BY <1>1, TypeCorrect, PTL DEF Spec, OnlyWritesDecideExistence

-----------------------------------------------------------------------------
(* Content.  The inductive invariant: what a read fetched, and what it sends *)
(* back, is no younger than the document, and as long as neither a write nor *)
(* an overtaken write-back came in between, it has the document's content.   *)

Faithful(snap, d, g, w, r) ==
  /\ snap.at <= w[d]
  /\ snap.at = w[d] /\ d \notin r
       => d \in DOMAIN g /\ Vals(snap.rec) = Vals(g[d])

Reflects ==
  \A c \in Clients :
    /\ \A d \in DOMAIN reading[c]   : Faithful(reading[c][d], d, graph, writes, raced)
    /\ \A d \in DOMAIN writeBack[c] : Faithful(writeBack[c][d], d, graph, writes, raced)

\* Snapshots are of documents, and have a snapshot's fields.
LEMMA SnapshotType ==
  ASSUME TypeOK, NEW c \in Clients
  PROVE  /\ \A d \in DOMAIN reading[c]   : d \in Docs /\ reading[c][d] \in Snapshot
         /\ \A d \in DOMAIN writeBack[c] : d \in Docs /\ writeBack[c][d] \in Snapshot
<1>1. reading[c] \in PFun(Docs, Snapshot) /\ writeBack[c] \in PFun(Docs, Snapshot)
  BY DEF TypeOK
<1>2. QED
  BY <1>1, PFunElim

\* Only a write of d, or a write-back landing on d, touches d.
LEMMA FaithfulWrite ==
  ASSUME TypeOK, NEW d \in Docs, Writes(d),
         NEW e \in Docs, NEW snap \in Snapshot, Faithful(snap, e, graph, writes, raced)
  PROVE  Faithful(snap, e, graph', writes', raced')
<1>1. /\ writes'[d] = writes[d] + 1
      /\ \A x \in Docs \ {d} : writes'[x] = writes[x]
      /\ raced' = raced
  BY CountWriteType DEF Writes
<1>2. snap.at \in Nat /\ writes[d] \in Nat
  BY DEF Snapshot, TypeOK
<1>3. CASE e = d
  BY <1>1, <1>2, <1>3 DEF Faithful
<1>4. CASE e # d
  BY <1>1, <1>4 DEF Faithful, Writes
<1>5. QED
  BY <1>3, <1>4

LEMMA FaithfulLand ==
  ASSUME TypeOK, NEW c \in Clients, NEW d \in Docs, WriteBackLands(c, d),
         Faithful(writeBack[c][d], d, graph, writes, raced),
         NEW e \in Docs, NEW snap \in Snapshot, Faithful(snap, e, graph, writes, raced)
  PROVE  Faithful(snap, e, graph', writes', raced')
<1>1. /\ DOMAIN graph' = DOMAIN graph
      /\ \A x \in DOMAIN graph \ {d} : graph'[x] = graph[x]
      /\ d \in DOMAIN graph => graph'[d] = writeBack[c][d].rec
  BY LandType
<1>2. /\ writes' = writes
      /\ raced' = IF writeBack[c][d].at < writes[d] THEN raced \cup {d} ELSE raced
      /\ d \in DOMAIN writeBack[c]
  BY DEF WriteBackLands
<1>3. writeBack[c][d].at \in Nat /\ writes[d] \in Nat
  <2>1. writeBack[c][d] \in Snapshot
    BY <1>2, SnapshotType
  <2>2. QED
    BY <2>1 DEF Snapshot, TypeOK
<1>4. CASE e # d
  BY <1>1, <1>2, <1>4 DEF Faithful
<1>5. CASE e = d /\ (writeBack[c][d].at < writes[d] \/ d \in raced)
  BY <1>2, <1>5 DEF Faithful
<1>6. CASE e = d /\ ~(writeBack[c][d].at < writes[d]) /\ d \notin raced
  <2>1. writeBack[c][d].at = writes[d] /\ raced' = raced
    BY <1>2, <1>3, <1>6 DEF Faithful
  <2>2. Vals(graph'[d]) = Vals(graph[d]) /\ d \in DOMAIN graph
    BY <1>1, <1>6, <2>1 DEF Faithful
  <2>3. QED
    BY <1>1, <1>2, <1>6, <2>1, <2>2 DEF Faithful
<1>7. QED
  BY <1>4, <1>5, <1>6

LEMMA InitReflects == Init => Reflects
  BY NoneType DEF Init, Reflects

LEMMA NextReflects ==
  ASSUME TypeOK, Reflects, [Next]_vars
  PROVE  Reflects'
<1>1. ASSUME NEW d \in Docs, Writes(d)
      PROVE  Reflects'
  <2>1. reading' = reading /\ writeBack' = writeBack
    BY <1>1, CountWriteType DEF Writes
  <2>2. QED
    BY <1>1, <2>1, FaithfulWrite, SnapshotType DEF Reflects
<1>2. ASSUME NEW c \in Clients, NEW S \in SUBSET Docs, Read(c, S)
      PROVE  Reflects'
  <2>1. UNCHANGED <<graph, writeBack, writes, raced>>
    BY <1>2 DEF Read
  <2>2. ASSUME NEW d \in DOMAIN reading'[c]
        PROVE  Faithful(reading'[c][d], d, graph', writes', raced')
    <3>1. d \in DOMAIN graph /\ reading'[c][d] = [rec |-> graph[d], at |-> writes[d]]
      BY <1>2, <2>2, ReadType
    <3>2. writes[d] \in Nat
      BY <3>1, StoredType DEF TypeOK
    <3>3. QED
      BY <2>1, <3>1, <3>2 DEF Faithful
  <2>3. \A b \in Clients \ {c} : reading'[b] = reading[b]
    BY <1>2, ReadType
  <2>4. QED
    BY <2>1, <2>2, <2>3 DEF Reflects, Faithful
<1>3. ASSUME NEW c \in Clients, Answer(c)
      PROVE  Reflects'
  <2>1. UNCHANGED <<graph, writes, raced>>
    BY <1>3 DEF Answer
  <2>2. ASSUME NEW d \in DOMAIN writeBack'[c]
        PROVE  Faithful(writeBack'[c][d], d, graph', writes', raced')
    <3>1. CASE d \in DOMAIN writeBack[c] /\ writeBack'[c][d] = writeBack[c][d]
      BY <2>1, <3>1 DEF Reflects, Faithful
    <3>2. CASE /\ d \in DOMAIN reading[c]
               /\ writeBack'[c][d].at = reading[c][d].at
               /\ Vals(writeBack'[c][d].rec) = Vals(reading[c][d].rec)
      BY <2>1, <3>2 DEF Reflects, Faithful
    <3>3. QED
      BY <1>3, <2>2, <3>1, <3>2, AnswerType
  <2>3. /\ \A b \in Clients \ {c} : /\ reading'[b] = reading[b]
                                    /\ writeBack'[b] = writeBack[b]
        /\ DOMAIN reading'[c] = {}
    BY <1>3, AnswerType, NoneType
  <2>4. QED
    BY <2>1, <2>2, <2>3 DEF Reflects, Faithful
<1>4. ASSUME NEW c \in Clients, NEW d \in Docs, WriteBackLands(c, d)
      PROVE  Reflects'
  <2>1. reading' = reading /\ Faithful(writeBack[c][d], d, graph, writes, raced)
    BY <1>4 DEF WriteBackLands, Reflects
  <2>2. ASSUME NEW b \in Clients, NEW e \in DOMAIN reading[b]
        PROVE  Faithful(reading[b][e], e, graph', writes', raced')
    BY <1>4, <2>1, FaithfulLand, SnapshotType DEF Reflects
  <2>3. ASSUME NEW b \in Clients, NEW e \in DOMAIN writeBack'[b]
        PROVE  Faithful(writeBack'[b][e], e, graph', writes', raced')
    <3>1. e \in DOMAIN writeBack[b] /\ writeBack'[b][e] = writeBack[b][e]
      BY <1>4, <2>3, LandType
    <3>2. Faithful(writeBack[b][e], e, graph', writes', raced')
      BY <1>4, <2>1, <3>1, FaithfulLand, SnapshotType DEF Reflects
    <3>3. QED
      BY <3>1, <3>2 DEF Faithful
  <2>4. QED
    BY <2>1, <2>2, <2>3 DEF Reflects, Faithful
<1>5. ASSUME NEW c \in Clients, NEW d \in Docs, WriteBackFails(c, d)
      PROVE  Reflects'
  <2>1. UNCHANGED <<graph, reading, writes, raced>>
    BY <1>5 DEF WriteBackFails
  <2>2. \A b \in Clients : \A e \in DOMAIN writeBack'[b] :
          e \in DOMAIN writeBack[b] /\ writeBack'[b][e] = writeBack[b][e]
    BY <1>5, FailType
  <2>3. QED
    BY <2>1, <2>2 DEF Reflects, Faithful
<1>6. CASE UNCHANGED vars
  BY <1>6 DEF vars, Reflects, Faithful
<1>7. QED
  BY <1>1, <1>2, <1>3, <1>4, <1>5, <1>6, NextCases

LEMMA Reflected == Spec => [](TypeOK /\ Reflects)
<1>1. Init => TypeOK /\ Reflects
  BY InitType, InitReflects
<1>2. TypeOK /\ Reflects /\ [Next]_vars => (TypeOK /\ Reflects)'
  BY NextType, NextReflects
<1>3. QED
  BY <1>1, <1>2, PTL DEF Spec

LEMMA StepContent ==
  ASSUME TypeOK, Reflects, [Next]_vars,
         NEW d \in DOMAIN graph \cap DOMAIN graph',
         writes'[d] = writes[d], d \notin raced'
  PROVE  Vals(graph'[d]) = Vals(graph[d])
<1>1. d \in Docs
  BY StoredType
<1>2. ASSUME NEW e \in Docs, Writes(e)
      PROVE  Vals(graph'[d]) = Vals(graph[d])
  <2>1. e # d
    BY <1>1, <1>2, CountWriteType DEF Writes, TypeOK
  <2>2. QED
    BY <1>1, <1>2, <2>1 DEF Writes
<1>3. CASE UNCHANGED graph
  BY <1>3
<1>4. ASSUME NEW c \in Clients, NEW e \in Docs, WriteBackLands(c, e)
      PROVE  Vals(graph'[d]) = Vals(graph[d])
  <2>1. CASE e # d
    BY <1>4, <2>1, LandType
  <2>2. CASE e = d
    <3>1. /\ raced' = IF writeBack[c][d].at < writes[d] THEN raced \cup {d} ELSE raced
          /\ d \in DOMAIN writeBack[c]
      BY <1>4, <2>2 DEF WriteBackLands
    <3>2. Faithful(writeBack[c][d], d, graph, writes, raced)
      BY <3>1 DEF Reflects
    <3>3. writeBack[c][d].at \in Nat /\ writes[d] \in Nat
      <4>1. writeBack[c][d] \in Snapshot
        BY <3>1, SnapshotType
      <4>2. QED
        BY <1>1, <4>1 DEF Snapshot, TypeOK
    <3>4. Vals(writeBack[c][d].rec) = Vals(graph[d])
      BY <3>1, <3>2, <3>3 DEF Faithful
    <3>5. graph'[d] = writeBack[c][d].rec
      BY <1>4, <2>2, LandType
    <3>6. QED
      BY <3>4, <3>5
  <2>3. QED
    BY <2>1, <2>2
<1>5. CASE UNCHANGED vars
  BY <1>3, <1>5 DEF vars
<1>6. QED
  BY <1>2, <1>3, <1>4, <1>5, NextCases DEF Read, Answer, WriteBackFails

\* Write-backs, however many clients send them, leave the content of every
\* document as the application wrote it, unless a write overtook one of them.
THEOREM ContentTheorem == Spec => WriteBackKeepsContent
<1>1. TypeOK /\ Reflects /\ [Next]_vars =>
        [\A d \in DOMAIN graph \cap DOMAIN graph' :
           /\ writes'[d] = writes[d]
           /\ d \notin raced'
           => Vals(graph'[d]) = Vals(graph[d])]_vars
  BY StepContent
<1>2. QED
  BY <1>1, Reflected, PTL DEF Spec, WriteBackKeepsContent

-----------------------------------------------------------------------------
(* Readers.  All that is current of a document -- its record, what reads     *)
(* fetched of it and what they send back, since its last write -- comes from *)
(* one origin: it is that record, or that record migrated further.           *)

Derived(o, r) == r = o \/ (r.v > o.v /\ r.data = Upgrade(o.data, r.v))

\* What is current of document d.
Seen(d) ==
  { r \in Record :
      \/ d \in DOMAIN graph /\ r = graph[d]
      \/ \E c \in Clients : /\ d \in DOMAIN reading[c]
                            /\ reading[c][d].at = writes[d]
                            /\ r = reading[c][d].rec
      \/ \E c \in Clients : /\ d \in DOMAIN writeBack[c]
                            /\ writeBack[c][d].at = writes[d]
                            /\ r = writeBack[c][d].rec }

OneOrigin(d) == \E o \in Record : \A r \in Seen(d) : Derived(o, r)

Common == \A d \in Docs : d \in DOMAIN graph /\ d \notin raced => OneOrigin(d)

\* Migrating twice is migrating to the later version.
LEMMA UpgradeTwice ==
  ASSUME NEW data \in Data, NEW a \in 0..MaxVersion, NEW b \in 0..MaxVersion, a <= b
  PROVE  Upgrade(Upgrade(data, a), b) = Upgrade(data, b)
<1>1. \A x \in DOMAIN data : data[x] \in Cell
  BY PFunElim DEF Data
<1>2. Upgrade(data, a) \in Data /\ DOMAIN Upgrade(data, a) = DOMAIN data
  BY UpgradeKeeps
<1>3. ASSUME NEW x \in DOMAIN data
      PROVE  Upgrade(Upgrade(data, a), b)[x] = Upgrade(data, b)[x]
  <2>1. PICK s \in 0..MaxVersion, w \in 0..MaxWrites : data[x] = [shape |-> s, val |-> w]
    BY <1>1 DEF Cell
  <2>2. Upgrade(data, a)[x] = [shape |-> IF s < a THEN a ELSE s, val |-> w]
    BY <2>1 DEF Upgrade
  <2>3. Upgrade(data, b)[x] = [shape |-> IF s < b THEN b ELSE s, val |-> w]
    BY <2>1 DEF Upgrade
  <2>4. CASE s < a
    <3>1. Upgrade(data, a)[x] = [shape |-> a, val |-> w]
      BY <2>2, <2>4
    <3>2. Upgrade(Upgrade(data, a), b)[x] = [shape |-> IF a < b THEN b ELSE a, val |-> w]
      BY <1>2, <3>1 DEF Upgrade
    <3>3. (IF a < b THEN b ELSE a) = b /\ (IF s < b THEN b ELSE s) = b
      BY <2>4
    <3>4. QED
      BY <2>3, <3>2, <3>3
  <2>5. CASE ~(s < a)
    <3>1. Upgrade(data, a)[x] = [shape |-> s, val |-> w]
      BY <2>2, <2>5
    <3>2. Upgrade(Upgrade(data, a), b)[x] = [shape |-> IF s < b THEN b ELSE s, val |-> w]
      BY <1>2, <3>1 DEF Upgrade
    <3>3. QED
      BY <2>3, <3>2
  <2>6. QED
    BY <2>4, <2>5
<1>4. /\ Upgrade(Upgrade(data, a), b) =
           [x \in DOMAIN data |-> Upgrade(Upgrade(data, a), b)[x]]
      /\ Upgrade(data, b) = [x \in DOMAIN data |-> Upgrade(data, b)[x]]
  BY <1>2 DEF Upgrade
<1>5. QED
  BY <1>3, <1>4

LEMMA DerivedMigrates ==
  ASSUME NEW c \in Clients, NEW o \in Record, NEW r \in Record, Derived(o, r)
  PROVE  Derived(o, Migrated(c, r))
<1>1. /\ Version[c] \in 0..MaxVersion
      /\ o.data \in Data
      /\ o.v \in 0..MaxVersion
      /\ r.v \in 0..MaxVersion
  BY DEF Record
<1>2. CASE ~Behind(c, r)
  BY <1>2 DEF Migrated
<1>3. CASE Behind(c, r)
  <2>1. /\ Migrated(c, r).v = Version[c]
        /\ Migrated(c, r).data = Upgrade(r.data, Version[c])
        /\ r.v < Version[c]
    BY <1>3 DEF Migrated, Behind
  <2>2. Upgrade(r.data, Version[c]) = Upgrade(o.data, Version[c]) /\ o.v < Version[c]
    <3>1. CASE r = o
      BY <2>1, <3>1
    <3>2. CASE r.v > o.v /\ r.data = Upgrade(o.data, r.v)
      <4>1. r.v <= Version[c] /\ o.v < Version[c]
        BY <1>1, <2>1, <3>2
      <4>2. QED
        BY <1>1, <3>2, <4>1, UpgradeTwice
    <3>3. QED
      BY <3>1, <3>2 DEF Derived
  <2>3. QED
    BY <1>1, <2>1, <2>2 DEF Derived
<1>4. QED
  BY <1>2, <1>3

\* What a client that is current enough reads depends on the origin only.
LEMMA DerivedReads ==
  ASSUME NEW c \in Clients, NEW o \in Record, NEW r \in Record, Derived(o, r),
         Version[c] >= r.v
  PROVE  Migrated(c, r).data = IF Version[c] > o.v THEN Upgrade(o.data, Version[c]) ELSE o.data
<1>1. /\ Version[c] \in 0..MaxVersion
      /\ o.data \in Data
      /\ o.v \in 0..MaxVersion
      /\ r.v \in 0..MaxVersion
  BY DEF Record
<1>2. CASE r = o
  <2>1. CASE Version[c] > o.v
    BY <1>1, <1>2, <2>1 DEF Migrated, Behind
  <2>2. CASE ~(Version[c] > o.v)
    BY <1>1, <1>2, <2>2 DEF Migrated, Behind
  <2>3. QED
    BY <2>1, <2>2
<1>3. CASE r.v > o.v /\ r.data = Upgrade(o.data, r.v)
  <2>1. Version[c] > o.v
    BY <1>1, <1>3
  <2>2. CASE Version[c] > r.v
    <3>1. Migrated(c, r).data = Upgrade(r.data, Version[c]) /\ r.v <= Version[c]
      BY <1>1, <2>2 DEF Migrated, Behind
    <3>2. QED
      BY <1>1, <1>3, <2>1, <3>1, UpgradeTwice
  <2>3. CASE Version[c] = r.v
    <3>1. Migrated(c, r) = r
      BY <1>1, <2>3 DEF Migrated, Behind
    <3>2. QED
      BY <1>3, <2>1, <2>3, <3>1
  <2>4. QED
    BY <1>1, <2>2, <2>3
<1>4. QED
  BY <1>2, <1>3 DEF Derived

\* Without a write of d, what is current of d was current, or is migrated from
\* what was.
LEMMA SeenStep ==
  ASSUME TypeOK, Reflects, [Next]_vars, NEW d \in Docs,
         d \in DOMAIN graph', writes'[d] = writes[d], d \notin raced'
  PROVE  /\ d \in DOMAIN graph /\ d \notin raced
         /\ graph[d] \in Seen(d) /\ graph'[d] \in Seen(d)
         /\ \A r \in Seen(d)' : \/ r \in Seen(d)
                                \/ \E c \in Clients, q \in Seen(d) : r = Migrated(c, q)
<1>0. TypeOK'
  BY NextType
<1>1. ASSUME NEW e \in DOMAIN graph PROVE graph[e] \in Record
  BY <1>1, StoredType
<1>2. ASSUME NEW e \in Docs, Writes(e)
      PROVE  /\ d \in DOMAIN graph /\ d \notin raced
             /\ graph'[d] = graph[d]
             /\ Seen(d)' = Seen(d)
  <2>1. e # d
    BY <1>2, CountWriteType DEF Writes, TypeOK
  <2>2. /\ d \in DOMAIN graph /\ graph'[d] = graph[d]
        /\ UNCHANGED <<reading, writeBack, raced>>
    BY <1>2, <2>1, CountWriteType DEF Writes
  <2>3. QED
    BY <2>2 DEF Seen
<1>3. ASSUME NEW c \in Clients, NEW S \in SUBSET Docs, Read(c, S)
      PROVE  /\ d \in DOMAIN graph /\ d \notin raced
             /\ graph'[d] = graph[d]
             /\ Seen(d)' \subseteq Seen(d)
  <2>1. UNCHANGED <<graph, writeBack, writes, raced>>
    BY <1>3 DEF Read
  <2>2. ASSUME NEW b \in Clients, d \in DOMAIN reading'[b]
        PROVE  \/ d \in DOMAIN reading[b] /\ reading'[b][d] = reading[b][d]
               \/ reading'[b][d].rec = graph[d]
    <3>1. CASE b = c
      <4>1. reading'[c][d] = [rec |-> graph[d], at |-> writes[d]]
        BY <1>3, <2>2, <3>1, ReadType
      <4>2. QED
        BY <3>1, <4>1
    <3>2. CASE b # c
      BY <1>3, <2>2, <3>2, ReadType
    <3>3. QED
      BY <3>1, <3>2
  <2>3. QED
    BY <2>1, <2>2 DEF Seen
<1>4. ASSUME NEW c \in Clients, Answer(c)
      PROVE  /\ d \in DOMAIN graph /\ d \notin raced
             /\ graph'[d] = graph[d]
             /\ \A r \in Seen(d)' : \/ r \in Seen(d)
                                    \/ \E b \in Clients, q \in Seen(d) : r = Migrated(b, q)
  <2>1. UNCHANGED <<graph, writes, raced>>
    BY <1>4 DEF Answer
  <2>2. ASSUME NEW b \in Clients, d \in DOMAIN reading'[b]
        PROVE  d \in DOMAIN reading[b] /\ reading'[b][d] = reading[b][d]
    BY <1>4, <2>2, AnswerType, NoneType
  <2>3. ASSUME NEW b \in Clients, d \in DOMAIN writeBack'[b]
        PROVE  \/ d \in DOMAIN writeBack[b] /\ writeBack'[b][d] = writeBack[b][d]
               \/ /\ d \in DOMAIN reading[b]
                  /\ writeBack'[b][d].at = reading[b][d].at
                  /\ writeBack'[b][d].rec = Migrated(b, reading[b][d].rec)
    BY <1>4, <2>3, AnswerType
  <2>4. ASSUME NEW b \in Clients, d \in DOMAIN reading[b], reading[b][d].at = writes[d]
        PROVE  reading[b][d].rec \in Seen(d)
    <3>1. reading[b][d].rec \in Record
      BY <2>4, SnapshotType DEF Snapshot
    <3>2. QED
      BY <2>4, <3>1 DEF Seen
  <2>5. ASSUME NEW r \in Seen(d)'
        PROVE  \/ r \in Seen(d)
               \/ \E b \in Clients, q \in Seen(d) : r = Migrated(b, q)
    <3>1. CASE d \in DOMAIN graph' /\ r = graph'[d]
      BY <2>1, <2>5, <3>1 DEF Seen
    <3>2. ASSUME NEW b \in Clients, d \in DOMAIN reading'[b], reading'[b][d].at = writes'[d],
                 r = reading'[b][d].rec
          PROVE  r \in Seen(d)
      BY <2>1, <2>2, <2>4, <3>2
    <3>3. ASSUME NEW b \in Clients, d \in DOMAIN writeBack'[b], writeBack'[b][d].at = writes'[d],
                 r = writeBack'[b][d].rec
          PROVE  r \in Seen(d) \/ \E q \in Seen(d) : r = Migrated(b, q)
      <4>1. CASE d \in DOMAIN writeBack[b] /\ writeBack'[b][d] = writeBack[b][d]
        BY <2>1, <2>5, <3>3, <4>1 DEF Seen
      <4>2. CASE /\ d \in DOMAIN reading[b]
                 /\ writeBack'[b][d].at = reading[b][d].at
                 /\ writeBack'[b][d].rec = Migrated(b, reading[b][d].rec)
        BY <2>1, <2>4, <3>3, <4>2
      <4>3. QED
        BY <2>3, <3>3, <4>1, <4>2
    <3>4. QED
      BY <2>5, <3>1, <3>2, <3>3 DEF Seen
  <2>6. QED
    BY <2>1, <2>5
<1>5. ASSUME NEW c \in Clients, NEW e \in Docs, WriteBackLands(c, e)
      PROVE  /\ d \in DOMAIN graph /\ d \notin raced
             /\ graph'[d] \in Seen(d)
             /\ Seen(d)' \subseteq Seen(d)
  <2>1. /\ UNCHANGED <<reading, writes>>
        /\ raced' = IF writeBack[c][e].at < writes[e] THEN raced \cup {e} ELSE raced
        /\ e \in DOMAIN writeBack[c]
    BY <1>5 DEF WriteBackLands
  <2>2. d \in DOMAIN graph /\ d \notin raced
    BY <1>5, <2>1, LandType
  <2>3. graph'[d] \in Seen(d)
    <3>1. CASE e # d
      <4>1. graph'[d] = graph[d] /\ graph[d] \in Record
        BY <1>1, <1>5, <2>2, <3>1, LandType
      <4>2. QED
        BY <2>2, <4>1 DEF Seen
    <3>2. CASE e = d
      <4>1. graph'[d] = writeBack[c][d].rec
        BY <1>5, <2>2, <3>2, LandType
      <4>2. writeBack[c][d] \in Snapshot
        BY <2>1, <3>2, SnapshotType
      <4>3. writeBack[c][d].at \in Nat /\ writeBack[c][d].rec \in Record /\ writes[d] \in Nat
        BY <4>2 DEF Snapshot, TypeOK
      <4>4. writeBack[c][d].at <= writes[d]
        BY <2>1, <3>2 DEF Reflects, Faithful
      <4>5. ~(writeBack[c][d].at < writes[d])
        BY <2>1, <3>2
      <4>6. writeBack[c][d].at = writes[d]
        BY <4>3, <4>4, <4>5
      <4>7. QED
        BY <2>1, <3>2, <4>1, <4>3, <4>6 DEF Seen
    <3>3. QED
      BY <3>1, <3>2
  <2>4. ASSUME NEW b \in Clients, d \in DOMAIN writeBack'[b]
        PROVE  d \in DOMAIN writeBack[b] /\ writeBack'[b][d] = writeBack[b][d]
    BY <1>5, <2>4, LandType
  <2>5. QED
    BY <2>1, <2>2, <2>3, <2>4 DEF Seen
<1>6. ASSUME NEW c \in Clients, NEW e \in Docs, WriteBackFails(c, e)
      PROVE  /\ d \in DOMAIN graph /\ d \notin raced
             /\ graph'[d] = graph[d]
             /\ Seen(d)' \subseteq Seen(d)
  <2>1. UNCHANGED <<graph, reading, writes, raced>>
    BY <1>6 DEF WriteBackFails
  <2>2. ASSUME NEW b \in Clients, d \in DOMAIN writeBack'[b]
        PROVE  d \in DOMAIN writeBack[b] /\ writeBack'[b][d] = writeBack[b][d]
    BY <1>6, <2>2, FailType
  <2>3. QED
    BY <2>1, <2>2 DEF Seen
<1>7. ASSUME UNCHANGED vars
      PROVE  /\ d \in DOMAIN graph /\ d \notin raced
             /\ graph'[d] = graph[d]
             /\ Seen(d)' = Seen(d)
  BY <1>7 DEF vars, Seen
<1>8. d \in DOMAIN graph => graph[d] \in Seen(d)
  BY <1>1 DEF Seen
<1>9. QED
  BY <1>2, <1>3, <1>4, <1>5, <1>6, <1>7, <1>8, NextCases

LEMMA InitCommon == Init => Common
<1> SUFFICES ASSUME Init, NEW d \in Docs, d \in DOMAIN graph PROVE OneOrigin(d)
  BY DEF Common
<1>1. graph[d] \in Record
  BY InitType, StoredType
<1>2. Seen(d) = {graph[d]}
  BY <1>1, NoneType DEF Init, Seen
<1>3. QED
  BY <1>1, <1>2 DEF OneOrigin, Derived

LEMMA NextCommon ==
  ASSUME TypeOK, Reflects, Common, [Next]_vars
  PROVE  Common'
<1> SUFFICES ASSUME NEW d \in Docs, d \in DOMAIN graph', d \notin raced'
             PROVE  OneOrigin(d)'
  BY DEF Common
<1>1. TypeOK' /\ Reflects'
  BY NextType, NextReflects
<1>2. CASE writes'[d] = writes[d]
  <2>1. /\ d \in DOMAIN graph /\ d \notin raced
        /\ \A r \in Seen(d)' : \/ r \in Seen(d)
                               \/ \E c \in Clients, q \in Seen(d) : r = Migrated(c, q)
    BY <1>2, SeenStep
  <2>2. PICK o \in Record : \A r \in Seen(d) : Derived(o, r)
    BY <2>1 DEF Common, OneOrigin
  <2>3. \A q \in Seen(d) : q \in Record
    BY DEF Seen
  <2>4. \A r \in Seen(d)' : Derived(o, r)
    BY <2>1, <2>2, <2>3, DerivedMigrates
  <2>5. QED
    BY <2>2, <2>4 DEF OneOrigin
<1>3. CASE writes'[d] # writes[d]
  \* everything fetched or sent before the write is out of date
  <2>1. Writes(d)
    <3>1. ~UNCHANGED writes
      BY <1>3
    <3>2. PICK e \in Docs : Writes(e)
      BY <3>1, NextCases DEF Read, Answer, WriteBackLands, WriteBackFails, vars
    <3>3. e = d
      BY <1>3, <3>2, CountWriteType DEF Writes
    <3>4. QED
      BY <3>2, <3>3
  <2>2. writes'[d] = writes[d] + 1 /\ writes[d] \in Nat /\ UNCHANGED <<reading, writeBack>>
    BY <2>1, CountWriteType DEF Writes, TypeOK
  <2>3. ASSUME NEW c \in Clients
        PROVE  /\ d \in DOMAIN reading[c]   => reading[c][d].at # writes'[d]
               /\ d \in DOMAIN writeBack[c] => writeBack[c][d].at # writes'[d]
    <3>1. ASSUME NEW snap \in Snapshot, Faithful(snap, d, graph, writes, raced)
          PROVE  snap.at # writes'[d]
      <4>1. snap.at \in Nat /\ snap.at <= writes[d]
        BY <3>1 DEF Snapshot, Faithful
      <4>2. QED
        BY <2>2, <4>1
    <3>2. QED
      BY <3>1, SnapshotType DEF Reflects
  <2>4. graph'[d] \in Record
    <3>1. graph' \in PFun(Docs, Record)
      BY <1>1 DEF TypeOK
    <3>2. QED
      BY <3>1, PFunElim
  <2>5. \A r \in Seen(d)' : r = graph'[d]
    BY <2>2, <2>3 DEF Seen
  <2>6. QED
    BY <2>4, <2>5 DEF OneOrigin, Derived
<1>4. QED
  BY <1>2, <1>3

LEMMA StepReads ==
  ASSUME TypeOK, Reflects, Common, [Next]_vars,
         NEW d \in DOMAIN graph \cap DOMAIN graph', NEW c \in Clients,
         writes'[d] = writes[d], d \notin raced',
         Version[c] >= graph[d].v, Version[c] >= graph'[d].v
  PROVE  Migrated(c, graph'[d]).data = Migrated(c, graph[d]).data
<1>1. d \in Docs
  BY StoredType
<1>2. d \notin raced /\ graph[d] \in Seen(d) /\ graph'[d] \in Seen(d)
  BY <1>1, SeenStep
<1>3. PICK o \in Record : \A r \in Seen(d) : Derived(o, r)
  BY <1>1, <1>2 DEF Common, OneOrigin
<1>4. graph[d] \in Record /\ graph'[d] \in Record
  BY <1>2 DEF Seen
<1>5. QED
  BY <1>2, <1>3, <1>4, DerivedReads

\* Whichever registries the clients have and however their write-backs race,
\* a client that is current enough to migrate a record reads the same data
\* before and after any write-back that no write overtook.
THEOREM ReadersTheorem == Spec => WriteBackKeepsReads
<1>1. TypeOK /\ Reflects /\ Common /\ [Next]_vars =>
        [\A d \in DOMAIN graph \cap DOMAIN graph', c \in Clients :
           /\ writes'[d] = writes[d]
           /\ d \notin raced'
           /\ Version[c] >= graph[d].v
           /\ Version[c] >= graph'[d].v
           => Migrated(c, graph'[d]).data = Migrated(c, graph[d]).data]_vars
  BY StepReads
<1>2. Init => Common
  BY InitCommon
<1>3. TypeOK /\ Reflects /\ Common /\ [Next]_vars => Common'
  BY NextCommon
<1>4. QED
  BY <1>1, <1>2, <1>3, Reflected, PTL DEF Spec, WriteBackKeepsReads

-----------------------------------------------------------------------------
(* Reads.  With one deployment and no merging puts, no record ever has a    *)
(* field older than its stamp.                                              *)

Honest(rec) == \A x \in DOMAIN rec.data : rec.data[x].shape >= rec.v

AllHonest ==
  /\ \A d \in DOMAIN graph : Honest(graph[d])
  /\ \A c \in Clients :
       /\ \A d \in DOMAIN reading[c]   : Honest(reading[c][d].rec)
       /\ \A d \in DOMAIN writeBack[c] : Honest(writeBack[c][d].rec)

\* A migrated record is honest, and shaped for the newest schema.
LEMMA MigratedHonest ==
  ASSUME NEW c \in Clients, Version[c] = MaxVersion,
         NEW rec \in Record, Honest(rec)
  PROVE  /\ Honest(Migrated(c, rec))
         /\ \A x \in DOMAIN Migrated(c, rec).data :
              Migrated(c, rec).data[x].shape >= Version[c]
<1>1. rec.v \in 0..MaxVersion /\ rec.data \in Data
  BY DEF Record
<1>2. CASE Behind(c, rec)
  <2>1. Migrated(c, rec) = [v |-> MaxVersion, data |-> Upgrade(rec.data, MaxVersion)]
    BY <1>2 DEF Migrated
  <2>2. \A x \in DOMAIN Upgrade(rec.data, MaxVersion) :
          Upgrade(rec.data, MaxVersion)[x].shape >= MaxVersion
    BY <1>1, UpgradeKeeps
  <2>3. QED
    BY <2>1, <2>2 DEF Honest
<1>3. CASE ~Behind(c, rec)
  <2>1. Migrated(c, rec) = rec /\ rec.v = MaxVersion
    BY <1>1, <1>3 DEF Migrated, Behind
  <2>2. QED
    BY <2>1 DEF Honest
<1>4. QED
  BY <1>2, <1>3

\* An application write of an honest record keeps the rest honest.
LEMMA StoreHonest ==
  ASSUME TypeOK, AllHonest,
         NEW d \in Docs, NEW rec \in Record, Honest(rec), Store(d, rec), CountWrite(d)
  PROVE  AllHonest'
<1>1. /\ DOMAIN graph' = DOMAIN graph \cup {d}
      /\ \A x \in DOMAIN graph \ {d} : graph'[x] = graph[x]
      /\ graph'[d] = rec
  BY StoreType
<1>2. reading' = reading /\ writeBack' = writeBack
  BY CountWriteType
<1>3. QED
  BY <1>1, <1>2 DEF AllHonest

LEMMA PayloadShape ==
  ASSUME NEW c \in Clients, NEW d, NEW F \in SUBSET Fields
  PROVE  \A x \in DOMAIN Payload(c, d, F) : Payload(c, d, F)[x].shape = Version[c]
  BY DEF Payload

LEMMA NextHonest ==
  ASSUME TypeOK, AllHonest, \A c \in Clients : Version[c] = MaxVersion,
         [NextReplaceOnly]_vars
  PROVE  AllHonest'
<1>1. ASSUME NEW d \in Docs, Remove(d)
      PROVE  AllHonest'
  <2>1. /\ DOMAIN graph' = DOMAIN graph \ {d}
        /\ \A x \in DOMAIN graph \ {d} : graph'[x] = graph[x]
        /\ reading' = reading /\ writeBack' = writeBack
    BY <1>1, RemoveType, CountWriteType
  <2>2. QED
    BY <2>1 DEF AllHonest
<1>2. ASSUME NEW c \in Clients, NEW d \in Docs, NEW F \in SUBSET Fields, Replace(c, d, F)
      PROVE  AllHonest'
  <2> DEFINE rec == [v |-> Version[c], data |-> Payload(c, d, F)]
  <2>1. Store(d, rec) /\ CountWrite(d)
    BY <1>2 DEF Replace
  <2>2. rec \in Record
    BY <2>1, PayloadType DEF CountWrite, Record
  <2>3. Honest(rec)
    BY PayloadShape DEF Honest
  <2>4. QED
    BY <2>1, <2>2, <2>3, StoreHonest
<1>3. ASSUME NEW c \in Clients, NEW d \in Docs,
             NEW F \in SUBSET Fields, NEW D \in SUBSET Fields, Update(c, d, F, D)
      PROVE  AllHonest'
  <2> DEFINE kept == Only(graph[d].data, Fields \ D)
             rec  == [v |-> graph[d].v, data |-> Over(kept, Payload(c, d, F))]
  <2>1. Store(d, rec) /\ CountWrite(d) /\ d \in DOMAIN graph
    BY <1>3 DEF Update
  <2>2. graph[d].v \in 0..MaxVersion /\ graph[d].data \in Data /\ Honest(graph[d])
    BY <2>1, StoredType DEF AllHonest
  <2>3. kept \in Data /\ \A x \in DOMAIN kept : kept[x].shape >= graph[d].v
    BY <2>2, OnlyType DEF Data, Only, Honest
  <2>4. Payload(c, d, F) \in Data
    BY <2>1, PayloadType DEF CountWrite
  <2>5. Over(kept, Payload(c, d, F)) \in Data
    BY <2>3, <2>4, OverType DEF Data
  <2>6. rec \in Record
    BY <2>2, <2>5 DEF Record
  <2>7. \A x \in DOMAIN Payload(c, d, F) : Payload(c, d, F)[x].shape >= graph[d].v
    BY <2>2, PayloadShape
  <2> HIDE DEF kept
  <2>8. \A x \in DOMAIN Over(kept, Payload(c, d, F)) :
          Over(kept, Payload(c, d, F))[x].shape >= graph[d].v
    BY <2>3, <2>7 DEF Over
  <2>9. Honest(rec)
    BY <2>8 DEF Honest
  <2>10. QED
    BY <2>1, <2>6, <2>9, StoreHonest
<1>4. ASSUME NEW c \in Clients, NEW S \in SUBSET Docs, Read(c, S)
      PROVE  AllHonest'
  <2>1. graph' = graph /\ writeBack' = writeBack
    BY <1>4 DEF Read
  <2>2. ASSUME NEW d \in DOMAIN reading'[c]
        PROVE  Honest(reading'[c][d].rec)
    <3>1. d \in DOMAIN graph /\ reading'[c][d] = [rec |-> graph[d], at |-> writes[d]]
      BY <1>4, <2>2, ReadType
    <3>2. reading'[c][d].rec = graph[d]
      BY <3>1
    <3>3. QED
      BY <3>1, <3>2 DEF AllHonest
  <2>3. \A b \in Clients \ {c} : reading'[b] = reading[b]
    BY <1>4, ReadType
  <2>4. QED
    BY <2>1, <2>2, <2>3 DEF AllHonest
<1>5. ASSUME NEW c \in Clients, Answer(c)
      PROVE  AllHonest'
  <2>1. graph' = graph
    BY <1>5 DEF Answer
  <2>2. ASSUME NEW d \in DOMAIN writeBack'[c]
        PROVE  Honest(writeBack'[c][d].rec)
    <3>1. CASE d \in DOMAIN writeBack[c] /\ writeBack'[c][d] = writeBack[c][d]
      BY <3>1 DEF AllHonest
    <3>2. CASE /\ d \in DOMAIN reading[c]
               /\ writeBack'[c][d].rec = Migrated(c, reading[c][d].rec)
      <4>1. reading[c][d] \in Snapshot
        BY <3>2, SnapshotType
      <4>2. reading[c][d].rec \in Record /\ Honest(reading[c][d].rec)
        BY <3>2, <4>1 DEF Snapshot, AllHonest
      <4>3. QED
        BY <3>2, <4>2, MigratedHonest
    <3>3. QED
      BY <1>5, <2>2, <3>1, <3>2, AnswerType
  <2>3. /\ \A b \in Clients \ {c} : /\ reading'[b] = reading[b]
                                    /\ writeBack'[b] = writeBack[b]
        /\ DOMAIN reading'[c] = {}
    BY <1>5, AnswerType, NoneType
  <2>4. QED
    BY <2>1, <2>2, <2>3 DEF AllHonest
<1>6. ASSUME NEW c \in Clients, NEW d \in Docs, WriteBackLands(c, d)
      PROVE  AllHonest'
  <2>1. /\ d \in DOMAIN writeBack[c]
        /\ DOMAIN graph' = DOMAIN graph
        /\ \A x \in DOMAIN graph \ {d} : graph'[x] = graph[x]
        /\ d \in DOMAIN graph => graph'[d] = writeBack[c][d].rec
        /\ \A b \in Clients : \A x \in DOMAIN writeBack'[b] :
             x \in DOMAIN writeBack[b] /\ writeBack'[b][x] = writeBack[b][x]
    BY <1>6, LandType
  <2>2. reading' = reading
    BY <1>6 DEF WriteBackLands
  <2>3. QED
    BY <2>1, <2>2 DEF AllHonest
<1>7. ASSUME NEW c \in Clients, NEW d \in Docs, WriteBackFails(c, d)
      PROVE  AllHonest'
  <2>1. UNCHANGED <<graph, reading>>
    BY <1>7 DEF WriteBackFails
  <2>2. \A b \in Clients : \A x \in DOMAIN writeBack'[b] :
          x \in DOMAIN writeBack[b] /\ writeBack'[b][x] = writeBack[b][x]
    BY <1>7, FailType
  <2>3. QED
    BY <2>1, <2>2 DEF AllHonest
<1>8. CASE UNCHANGED vars
  BY <1>8 DEF vars, AllHonest
<1>9. QED
  BY <1>1, <1>2, <1>3, <1>4, <1>5, <1>6, <1>7, <1>8
     DEF NextReplaceOnly, Delete, Step, Rewrite

LEMMA InitHonest == Init => AllHonest
<1> SUFFICES ASSUME Init
             PROVE  AllHonest
  OBVIOUS
<1>1. \A rec \in Legacy : Honest(rec)
  BY DEF Legacy, Honest
<1>2. \A d \in DOMAIN graph : graph[d] \in Legacy
  BY PFunElim DEF Init
<1>3. \A c \in Clients : DOMAIN reading[c] = {} /\ DOMAIN writeBack[c] = {}
  BY NoneType DEF Init
<1>4. QED
  BY <1>1, <1>2, <1>3 DEF AllHonest

LEMMA HonestReads ==
  ASSUME TypeOK, AllHonest, \A c \in Clients : Version[c] = MaxVersion
  PROVE  ReadsAreCurrent
<1>1. ASSUME NEW c \in Clients, NEW d \in DOMAIN reading[c]
      PROVE  \A x \in DOMAIN Migrated(c, reading[c][d].rec).data :
               Migrated(c, reading[c][d].rec).data[x].shape >= Version[c]
  <2>1. reading[c][d] \in Snapshot
    BY SnapshotType
  <2>2. reading[c][d].rec \in Record /\ Honest(reading[c][d].rec)
    BY <2>1 DEF Snapshot, AllHonest
  <2>3. QED
    BY <2>2, MigratedHonest
<1>2. QED
  BY <1>1 DEF ReadsAreCurrent

\* When every client runs the newest registry and the application never puts
\* into existing records, every read answers with newest-schema content.
THEOREM CurrentTheorem ==
  ASSUME \A c \in Clients : Version[c] = MaxVersion
  PROVE  SpecReplaceOnly => []ReadsAreCurrent
<1>1. Init => TypeOK /\ AllHonest
  BY InitType, InitHonest
<1>2. TypeOK /\ AllHonest /\ [NextReplaceOnly]_vars => (TypeOK /\ AllHonest)'
  <2>1. [NextReplaceOnly]_vars => [Next]_vars
    BY DEF NextReplaceOnly, Next
  <2>2. QED
    BY <2>1, NextType, NextHonest
<1>3. TypeOK /\ AllHonest => ReadsAreCurrent
  BY HonestReads
<1>4. QED
  BY <1>1, <1>2, <1>3, PTL DEF SpecReplaceOnly

-----------------------------------------------------------------------------
(* Transactions: no update is lost.  A revision moves on with every write,  *)
(* so what is still at a held revision has the content seen with it.        *)

\* A buffered write.
TxWrite == [doc : Records, val : Nat, migrates : BOOLEAN]

\* What an attempt knows of the documents it read.
Known == UNION { [D -> Nat] : D \in SUBSET Records }

\* An attempt: what it saw and holds, and the writes it has buffered.
Attempts ==
  [phase : {"idle", "running", "refused", "committed", "exhausted"}, attempt : Nat, wrote : BOOLEAN, writes : Seq(TxWrite),
   seen : Known, held : Known]

TransactionsType ==
  /\ txStore \in [Records -> [val : Nat, rev : Nat, behind : BOOLEAN]]
  /\ updates \in [Records -> Nat]
  /\ tx \in [Txs -> Attempts]

\* The buffered writes s of an attempt that saw `seen`: a write-back repeats what
\* was seen and comes once, an update counts one more and comes last.
FromSeen(s, seen) ==
  \A i \in DOMAIN s :
    /\ s[i].doc \in DOMAIN seen
    /\ s[i].migrates => s[i].val = seen[s[i].doc]
    /\ ~s[i].migrates => s[i].val = seen[s[i].doc] + 1
    /\ \A j \in DOMAIN s : /\ s[j].doc = s[i].doc
                           /\ ~s[i].migrates \/ s[j].migrates
                           => j <= i

\* What a held revision stands for: no document still at it has other content.
Stands(seen, held) ==
  /\ DOMAIN seen = DOMAIN held
  /\ \A d \in DOMAIN held : /\ held[d] <= txStore[d].rev
                            /\ held[d] = txStore[d].rev => seen[d] = txStore[d].val

TransactionsInv ==
  /\ TransactionsType
  /\ \A t \in Txs : FromSeen(tx[t].writes, tx[t].seen) /\ Stands(tx[t].seen, tx[t].held)
  /\ Tr!NoUpdateLost

\* One document more.
LEMMA WithIs ==
  ASSUME NEW h \in Known, NEW d \in Records, NEW x \in Nat
  PROVE  /\ Tr!With(h, d, x) \in Known
         /\ DOMAIN Tr!With(h, d, x) = DOMAIN h \cup {d}
         /\ Tr!With(h, d, x)[d] = x
         /\ \A e \in DOMAIN h \ {d} : Tr!With(h, d, x)[e] = h[e]
<1>1. Tr!With(h, d, x) \in [DOMAIN h \cup {d} -> Nat]
  <2>1. h \in [DOMAIN h -> Nat]
    BY DEF Known
  <2> QED
    BY <2>1 DEF Tr!With
<1>2. DOMAIN h \cup {d} \in SUBSET Records
  BY DEF Known
<1>3. Tr!With(h, d, x) \in Known
  BY <1>1, <1>2 DEF Known
<1> QED
  BY <1>3 DEF Tr!With

\* An attempt that starts holds nothing.
LEMMA FreshIs ==
  ASSUME NEW n \in Nat
  PROVE  /\ Tr!Fresh(n) \in Attempts
         /\ FromSeen(Tr!Fresh(n).writes, Tr!Fresh(n).seen)
         /\ Stands(Tr!Fresh(n).seen, Tr!Fresh(n).held)
<1>1. Tr!Nowhere \in [{} -> Nat] /\ DOMAIN Tr!Nowhere = {}
  BY DEF Tr!Nowhere
<1>2. Tr!Nowhere \in Known
  BY <1>1 DEF Known
<1>3. <<>> \in Seq(TxWrite) /\ DOMAIN <<>> = {}
  OBVIOUS
<1> QED
  BY <1>1, <1>2, <1>3 DEF Tr!Fresh, Attempts, FromSeen, Stands

\* What a transaction's own step leaves alone.
LEMMA OneAttempt ==
  ASSUME TransactionsInv, NEW t \in Txs, NEW new \in Attempts,
         FromSeen(new.writes, new.seen), Stands(new.seen, new.held),
         tx' = [tx EXCEPT ![t] = new], UNCHANGED <<txStore, updates>>
  PROVE  TransactionsInv'
<1>1. \A u \in Txs : tx'[u] = IF u = t THEN new ELSE tx[u]
  BY DEF TransactionsInv, TransactionsType
<1>2. TransactionsType'
  BY DEF TransactionsInv, TransactionsType
<1>3. Tr!NoUpdateLost'
  BY DEF TransactionsInv, Tr!NoUpdateLost
<1>4. \A u \in Txs : FromSeen(tx[u].writes, tx[u].seen)'
  BY <1>1 DEF TransactionsInv, FromSeen
<1>5. \A u \in Txs : Stands(tx[u].seen, tx[u].held)'
  BY <1>1 DEF TransactionsInv, Stands
<1> QED
  BY <1>2, <1>3, <1>4, <1>5 DEF TransactionsInv

\* A read holds the revision whose content it saw.
LEMMA SeenIs ==
  ASSUME TransactionsInv, NEW s \in Attempts, NEW d \in Records, d \notin DOMAIN s.seen,
         FromSeen(s.writes, s.seen), Stands(s.seen, s.held)
  PROVE  /\ Tr!Seen(s, d) \in Attempts
         /\ Tr!Seen(s, d).writes = s.writes
         /\ Tr!Seen(s, d).seen[d] = txStore[d].val
         /\ DOMAIN Tr!Seen(s, d).seen = DOMAIN s.seen \cup {d}
         /\ FromSeen(s.writes, Tr!Seen(s, d).seen)
         /\ Stands(Tr!Seen(s, d).seen, Tr!Seen(s, d).held)
<1>1. txStore[d].val \in Nat /\ txStore[d].rev \in Nat
  BY DEF TransactionsInv, TransactionsType
<1>2. /\ s.seen \in Known
      /\ s.held \in Known
      /\ DOMAIN s.seen = DOMAIN s.held
  BY DEF Attempts, Stands
<1> DEFINE seen == Tr!With(s.seen, d, txStore[d].val)
           held == Tr!With(s.held, d, txStore[d].rev)
<1>3. /\ seen \in Known
      /\ DOMAIN seen = DOMAIN s.seen \cup {d} /\ seen[d] = txStore[d].val
      /\ \A e \in DOMAIN s.seen \ {d} : seen[e] = s.seen[e]
  <2>1. s.seen \in Known /\ txStore[d].val \in Nat
    BY <1>1, <1>2
  <2> QED
    BY ONLY ZenonT(30), <2>1, WithIs, d \in Records
<1>4. /\ held \in Known
      /\ DOMAIN held = DOMAIN s.held \cup {d} /\ held[d] = txStore[d].rev
      /\ \A e \in DOMAIN s.held \ {d} : held[e] = s.held[e]
  <2>1. s.held \in Known /\ txStore[d].rev \in Nat
    BY <1>1, <1>2
  <2> QED
    BY ONLY ZenonT(30), <2>1, WithIs, d \in Records
<1>5. Tr!Seen(s, d) = [s EXCEPT !.seen = seen, !.held = held]
  BY DEF Tr!Seen
<1> HIDE DEF seen, held
<1>6. /\ Tr!Seen(s, d) \in Attempts /\ Tr!Seen(s, d).writes = s.writes
      /\ Tr!Seen(s, d).seen = seen /\ Tr!Seen(s, d).held = held
  BY <1>3, <1>4, <1>5 DEF Attempts
<1>7. FromSeen(s.writes, seen)
  BY <1>3 DEF FromSeen
<1>8. Stands(seen, held)
  BY <1>1, <1>2, <1>3, <1>4 DEF Stands
<1> QED
  BY <1>3, <1>6, <1>7, <1>8

\* One more write.
LEMMA AppendIs ==
  ASSUME NEW s \in Seq(TxWrite), NEW w \in TxWrite,
         NEW seen, FromSeen(s, seen), w.doc \in DOMAIN seen,
         w.migrates => w.val = seen[w.doc] /\ \A i \in DOMAIN s : s[i].doc # w.doc,
         ~w.migrates => w.val = seen[w.doc] + 1
                        /\ \A i \in DOMAIN s : s[i].doc = w.doc => s[i].migrates
  PROVE  Append(s, w) \in Seq(TxWrite) /\ FromSeen(Append(s, w), seen)
<1>1. DOMAIN Append(s, w) = DOMAIN s \cup {Len(s) + 1}
  OBVIOUS
<1>2. /\ Append(s, w)[Len(s) + 1] = w
      /\ \A i \in DOMAIN s : Append(s, w)[i] = s[i] /\ i < Len(s) + 1 /\ i \in Nat
  OBVIOUS
<1>3. FromSeen(Append(s, w), seen)
  BY <1>1, <1>2 DEF FromSeen
<1> QED
  BY <1>3

\* A commit: nothing it holds has changed, so the last write of each document
\* carries the content before it, or one more if there is an update.
LEMMA CommitKeeps ==
  ASSUME TransactionsInv, NEW t \in Txs, Tr!Commit(t)
  PROVE  TransactionsInv'
<1> DEFINE s == tx[t].writes
           seen == tx[t].seen
<1>1. /\ tx[t] \in Attempts /\ s \in Seq(TxWrite)
      /\ FromSeen(s, seen) /\ Stands(seen, tx[t].held)
  BY DEF TransactionsInv, TransactionsType, Attempts
<1>2. \A d \in DOMAIN seen : seen[d] = txStore[d].val
  BY <1>1 DEF Tr!Commit, Tr!Unchanged, Stands
<1>3. ASSUME NEW d \in Records, Tr!To(s, d) = {}
      PROVE  txStore'[d] = txStore[d] /\ updates'[d] = updates[d]
  BY <1>3 DEF Tr!Commit, Tr!Applied, TransactionsInv, TransactionsType
<1>4. ASSUME NEW d \in Records, Tr!To(s, d) # {}
      PROVE  /\ txStore'[d].rev = txStore[d].rev + 1
             /\ txStore'[d] \in [val : Nat, rev : Nat, behind : BOOLEAN]
             /\ updates'[d] \in Nat
             /\ txStore'[d].val - txStore[d].val = updates'[d] - updates[d]
  <2> DEFINE own == Tr!To(s, d)
             last == Tr!Max(own)
  <2>1. \A i \in own : i \in DOMAIN s /\ i \in Nat /\ s[i] \in TxWrite /\ s[i].doc = d
    BY <1>1 DEF Tr!To
  <2>2. \E i \in own : \A j \in own : i >= j
    <3>1. CASE \E i \in own : ~s[i].migrates
      <4>1. PICK i \in own : ~s[i].migrates
        BY <3>1
      <4> QED
        BY <1>1, <2>1, <4>1 DEF FromSeen
    <3>2. CASE \A i \in own : s[i].migrates
      BY SMTT(30), <1>1, <1>4, <2>1, <3>2 DEF FromSeen
    <3> QED
      BY <3>1, <3>2
  <2>3. last \in own /\ \A j \in own : last >= j
    BY <2>2 DEF Tr!Max
  <2>4. /\ txStore'[d].val = s[last].val /\ txStore'[d].rev = txStore[d].rev + 1
        /\ txStore'[d].behind = (txStore[d].behind /\ \A i \in own : ~s[i].migrates)
        /\ txStore'[d] = [val |-> s[last].val, rev |-> txStore[d].rev + 1,
                          behind |-> txStore[d].behind /\ \A i \in own : ~s[i].migrates]
        /\ updates'[d] = updates[d] + IF \E i \in own : ~s[i].migrates THEN 1 ELSE 0
    BY <1>4 DEF Tr!Commit, Tr!Applied
  <2>5. /\ txStore[d].rev \in Nat /\ txStore[d].val \in Nat /\ updates[d] \in Nat
        /\ s[last].val \in Nat
    BY <2>1, <2>3 DEF TransactionsInv, TransactionsType, TxWrite
  <2>6. d \in DOMAIN seen /\ txStore[d].val = seen[d]
    BY <1>1, <1>2, <2>1, <2>3 DEF FromSeen
  <2>7. CASE \E i \in own : ~s[i].migrates
    <3>1. PICK i \in own : ~s[i].migrates
      BY <2>7
    <3>2. last <= i
      BY <1>1, <2>1, <2>3, <3>1 DEF FromSeen
    <3>3. last = i
      BY <2>1, <2>3, <3>2
    <3>4. s[last].val = seen[d] + 1
      BY <1>1, <2>1, <3>1, <3>3 DEF FromSeen
    <3> QED
      BY <2>4, <2>5, <2>6, <2>7, <3>4
  <2>8. CASE ~(\E i \in own : ~s[i].migrates)
    <3>1. s[last].val = seen[d]
      BY <1>1, <2>1, <2>3, <2>8 DEF FromSeen
    <3> QED
      BY <2>4, <2>5, <2>6, <2>8, <3>1
  <2> QED
    BY <2>7, <2>8
<1>5. /\ txStore' \in [Records -> [val : Nat, rev : Nat, behind : BOOLEAN]]
      /\ updates' \in [Records -> Nat]
  <2> DEFINE more(d) == updates[d] + IF \E i \in Tr!To(s, d) : ~s[i].migrates THEN 1 ELSE 0
  <2>1. /\ txStore' = [d \in Records |-> Tr!Applied(s, d)]
        /\ updates' = [d \in Records |-> more(d)]
    BY DEF Tr!Commit
  <2> HIDE DEF more
  <2>2. \A d \in Records : txStore'[d] = Tr!Applied(s, d) /\ updates'[d] = more(d)
    BY <2>1
  <2>3. \A d \in Records : /\ txStore'[d] \in [val : Nat, rev : Nat, behind : BOOLEAN]
                        /\ updates'[d] \in Nat
    BY <1>3, <1>4 DEF TransactionsInv, TransactionsType
  <2>4. \A d \in Records : /\ Tr!Applied(s, d) \in [val : Nat, rev : Nat, behind : BOOLEAN]
                        /\ more(d) \in Nat
    BY <2>2, <2>3
  <2> QED
    BY <2>1, <2>4
<1>6. Tr!NoUpdateLost'
  <2>1. ASSUME NEW d \in Records
        PROVE  txStore'[d].val = updates'[d]
    <3>1. /\ txStore[d].val = updates[d] /\ txStore[d].val \in Nat /\ updates[d] \in Nat
          /\ txStore'[d].val \in Nat /\ updates'[d] \in Nat
      BY <1>5 DEF TransactionsInv, TransactionsType, Tr!NoUpdateLost
    <3> QED
      BY <1>3, <1>4, <3>1
  <2> QED
    BY <2>1 DEF Tr!NoUpdateLost
<1>7. /\ tx' \in [Txs -> Attempts]
      /\ \A u \in Txs : /\ tx'[u].writes = tx[u].writes
                        /\ tx'[u].seen = tx[u].seen /\ tx'[u].held = tx[u].held
  BY DEF Tr!Commit, TransactionsInv, TransactionsType, Attempts
<1>8. ASSUME NEW u \in Txs
      PROVE  FromSeen(tx[u].writes, tx[u].seen)' /\ Stands(tx[u].seen, tx[u].held)'
  <2>1. FromSeen(tx[u].writes, tx[u].seen)'
    BY <1>7 DEF TransactionsInv, FromSeen
  <2>2. /\ Stands(tx[u].seen, tx[u].held) /\ DOMAIN tx[u].held \subseteq Records
        /\ \A d \in DOMAIN tx[u].held : tx[u].held[d] \in Nat
    <3>1. tx[u] \in Attempts
      BY DEF TransactionsInv, TransactionsType
    <3>2. tx[u].held \in Known
      BY <3>1 DEF Attempts
    <3> QED
      BY <3>2 DEF TransactionsInv, Known
  <2>3. \A d \in Records : /\ txStore[d].rev \in Nat
                        /\ \/ txStore'[d] = txStore[d]
                           \/ txStore'[d].rev = txStore[d].rev + 1
    BY <1>3, <1>4 DEF TransactionsInv, TransactionsType
  <2> QED
    BY <1>7, <2>1, <2>2, <2>3 DEF Stands
<1> QED
  BY <1>5, <1>6, <1>7, <1>8 DEF TransactionsInv, TransactionsType

\* A write from outside moves the revision on.
LEMMA WriteKeeps ==
  ASSUME TransactionsInv, NEW d \in Records, Tr!Write(d)
  PROVE  TransactionsInv'
<1>1. /\ txStore' = [txStore EXCEPT ![d].val = @ + 1, ![d].rev = @ + 1]
      /\ updates' = [updates EXCEPT ![d] = @ + 1] /\ tx' = tx
  BY DEF Tr!Write
<1>2. TransactionsType /\ Tr!NoUpdateLost
  BY DEF TransactionsInv
<1>3. TransactionsType'
  BY <1>1, <1>2 DEF TransactionsType
<1>4. Tr!NoUpdateLost'
  BY <1>1, <1>2 DEF TransactionsType, Tr!NoUpdateLost
<1>5. ASSUME NEW u \in Txs
      PROVE  FromSeen(tx[u].writes, tx[u].seen)' /\ Stands(tx[u].seen, tx[u].held)'
  <2>1. FromSeen(tx[u].writes, tx[u].seen)'
    BY <1>1 DEF TransactionsInv, FromSeen
  <2>2. /\ Stands(tx[u].seen, tx[u].held) /\ DOMAIN tx[u].held \subseteq Records
        /\ \A e \in DOMAIN tx[u].held : tx[u].held[e] \in Nat
    <3>1. tx[u] \in Attempts
      BY <1>2 DEF TransactionsType
    <3>2. tx[u].held \in Known
      BY <3>1 DEF Attempts
    <3> QED
      BY <3>2 DEF TransactionsInv, Known
  <2>3. \A e \in Records : /\ txStore[e].rev \in Nat
                        /\ \/ txStore'[e] = txStore[e]
                           \/ txStore'[e].rev = txStore[e].rev + 1
    BY <1>1, <1>2 DEF TransactionsType
  <2>4. ASSUME NEW e \in DOMAIN tx[u].held
        PROVE  /\ tx[u].held[e] <= txStore'[e].rev
               /\ tx[u].held[e] = txStore'[e].rev => tx[u].seen[e] = txStore'[e].val
    BY <2>2, <2>3 DEF Stands
  <2> QED
    BY <1>1, <2>1, <2>2, <2>4 DEF Stands
<1> QED
  BY <1>3, <1>4, <1>5 DEF TransactionsInv

\* Every step keeps the invariant.
LEMMA TransactionsStep ==
  ASSUME TransactionsInv, [Tr!Next]_(Tr!vars)
  PROVE  TransactionsInv'
<1>1. CASE UNCHANGED Tr!vars
  BY <1>1 DEF Tr!vars, TransactionsInv, TransactionsType, FromSeen, Stands, Tr!NoUpdateLost
<1> DEFINE Keeps(t) == /\ tx[t] \in Attempts
                       /\ FromSeen(tx[t].writes, tx[t].seen)
                       /\ Stands(tx[t].seen, tx[t].held)
<1>2. \A t \in Txs : Keeps(t)
  BY DEF TransactionsInv, TransactionsType
<1>3. ASSUME NEW t \in Txs, Tr!Begin(t)
      PROVE  TransactionsInv'
  BY <1>3, FreshIs, OneAttempt DEF Tr!Begin
<1>4. ASSUME NEW t \in Txs, NEW d \in Records, Tr!Read(t, d)
      PROVE  TransactionsInv'
  <2> DEFINE refusal == [tx[t] EXCEPT !.phase = "refused"]
             w == [doc |-> d, val |-> txStore[d].val, migrates |-> TRUE]
             found == Tr!Seen(tx[t], d)
             migrated == [found EXCEPT !.writes = <<w>>]
  <2>1. /\ \/ tx' = [tx EXCEPT ![t] = refusal]
           \/ tx' = [tx EXCEPT ![t] = migrated] /\ tx[t].writes = <<>>
           \/ tx' = [tx EXCEPT ![t] = found]
        /\ d \notin DOMAIN tx[t].seen /\ UNCHANGED <<txStore, updates>>
    <3>1. d \notin DOMAIN tx[t].seen /\ UNCHANGED <<txStore, updates>>
      BY <1>4 DEF Tr!Read
    <3>2. CASE tx[t].writes # <<>>
      <4>1. tx' = [tx EXCEPT ![t] = refusal]
        BY <1>4, <3>2 DEF Tr!Read
      <4> QED
        BY <3>1, <4>1
    <3>3. CASE tx[t].writes = <<>> /\ txStore[d].behind /\ TxWritesBack
      <4>1. tx' = [tx EXCEPT ![t] = migrated]
        BY <1>4, <3>3 DEF Tr!Read
      <4> QED
        BY <3>1, <3>3, <4>1
    <3>4. CASE tx[t].writes = <<>> /\ ~(txStore[d].behind /\ TxWritesBack)
      <4>1. tx' = [tx EXCEPT ![t] = found]
        BY <1>4, <3>4 DEF Tr!Read
      <4> QED
        BY <3>1, <4>1
    <3> QED
      BY <3>2, <3>3, <3>4
  <2>2. /\ refusal \in Attempts /\ refusal.writes = tx[t].writes
        /\ refusal.seen = tx[t].seen /\ refusal.held = tx[t].held
    BY <1>2 DEF Attempts
  <2>3. /\ found \in Attempts /\ found.writes = tx[t].writes
        /\ found.seen[d] = txStore[d].val /\ d \in DOMAIN found.seen
        /\ FromSeen(found.writes, found.seen) /\ Stands(found.seen, found.held)
    BY <1>2, <2>1, SeenIs
  <2>4. w \in TxWrite
    BY DEF TransactionsInv, TransactionsType, TxWrite
  <2>5. ASSUME tx[t].writes = <<>>
        PROVE  /\ migrated \in Attempts
               /\ FromSeen(migrated.writes, migrated.seen)
               /\ Stands(migrated.seen, migrated.held)
    <3>1. found.writes \in Seq(TxWrite) /\ found.writes = <<>>
      BY <2>3, <2>5 DEF Attempts
    <3>2. /\ w.doc = d /\ w.val = found.seen[d] /\ w.migrates = TRUE
          /\ \A i \in DOMAIN found.writes : found.writes[i].doc # d
          /\ Append(found.writes, w) = <<w>>
      BY <2>3, <3>1
    <3> HIDE DEF found, w
    <3>3. /\ Append(found.writes, w) \in Seq(TxWrite)
          /\ FromSeen(Append(found.writes, w), found.seen)
      BY <2>3, <2>4, <3>1, <3>2, AppendIs
    <3>4. /\ migrated \in Attempts /\ migrated.writes = Append(found.writes, w)
          /\ migrated.seen = found.seen /\ migrated.held = found.held
      BY <2>3, <3>2, <3>3 DEF Attempts
    <3> QED
      BY <2>3, <3>3, <3>4
  <2> HIDE DEF refusal, found, migrated
  <2> QED
    BY <1>2, <2>1, <2>2, <2>3, <2>5, OneAttempt
<1>5. ASSUME NEW t \in Txs, NEW d \in Records, Tr!Probe(t, d)
      PROVE  TransactionsInv'
  <2> DEFINE refusal == [tx[t] EXCEPT !.phase = "refused"]
             found == Tr!Seen(tx[t], d)
  <2>1. /\ \/ tx' = [tx EXCEPT ![t] = refusal]
           \/ tx' = [tx EXCEPT ![t] = found]
        /\ d \notin DOMAIN tx[t].seen /\ UNCHANGED <<txStore, updates>>
    BY <1>5 DEF Tr!Probe
  <2>2. /\ refusal \in Attempts /\ refusal.writes = tx[t].writes
        /\ refusal.seen = tx[t].seen /\ refusal.held = tx[t].held
    BY <1>2 DEF Attempts
  <2>3. /\ found \in Attempts
        /\ FromSeen(found.writes, found.seen) /\ Stands(found.seen, found.held)
    BY <1>2, <2>1, SeenIs
  <2> HIDE DEF refusal, found
  <2> QED
    BY <1>2, <2>1, <2>2, <2>3, OneAttempt
<1>6. ASSUME NEW t \in Txs, NEW d \in Records, Tr!Update(t, d)
      PROVE  TransactionsInv'
  <2> DEFINE w == [doc |-> d, val |-> tx[t].seen[d] + 1, migrates |-> FALSE]
             new == [tx[t] EXCEPT !.wrote = TRUE, !.writes = Append(@, w)]
  <2>1. /\ tx' = [tx EXCEPT ![t] = new] /\ UNCHANGED <<txStore, updates>>
        /\ d \in DOMAIN tx[t].seen
        /\ \A i \in DOMAIN tx[t].writes : tx[t].writes[i].doc = d => tx[t].writes[i].migrates
    BY <1>6 DEF Tr!Update
  <2>2. tx[t].seen[d] \in Nat /\ tx[t].writes \in Seq(TxWrite)
    <3>1. tx[t].seen \in Known /\ tx[t].writes \in Seq(TxWrite)
      BY <1>2 DEF Attempts
    <3> QED
      BY <2>1, <3>1 DEF Known
  <2>3. w \in TxWrite /\ w.doc = d /\ w.val = tx[t].seen[d] + 1 /\ w.migrates = FALSE
    BY <2>2 DEF TxWrite
  <2> HIDE DEF w
  <2>4. /\ Append(tx[t].writes, w) \in Seq(TxWrite)
        /\ FromSeen(Append(tx[t].writes, w), tx[t].seen)
    BY <1>2, <2>1, <2>2, <2>3, AppendIs
  <2>5. /\ new \in Attempts /\ new.writes = Append(tx[t].writes, w)
        /\ new.seen = tx[t].seen /\ new.held = tx[t].held
    BY <1>2, <2>4 DEF Attempts
  <2> HIDE DEF new
  <2> QED
    BY <1>2, <2>1, <2>4, <2>5, OneAttempt
<1>7. ASSUME NEW t \in Txs, Tr!Conflict(t)
      PROVE  TransactionsInv'
  <2> DEFINE spent == [tx[t] EXCEPT !.phase = "exhausted"]
             again == Tr!Fresh(tx[t].attempt + 1)
  <2>1. /\ \/ tx' = [tx EXCEPT ![t] = again] \/ tx' = [tx EXCEPT ![t] = spent]
        /\ UNCHANGED <<txStore, updates>>
    BY <1>7 DEF Tr!Conflict
  <2>2. /\ spent \in Attempts /\ spent.writes = tx[t].writes
        /\ spent.seen = tx[t].seen /\ spent.held = tx[t].held
    BY <1>2 DEF Attempts
  <2>3. tx[t].attempt + 1 \in Nat
    BY <1>2 DEF Attempts
  <2>4. again \in Attempts /\ FromSeen(again.writes, again.seen) /\ Stands(again.seen, again.held)
    BY <2>3, FreshIs
  <2> HIDE DEF spent, again
  <2> QED
    BY <1>2, <2>1, <2>2, <2>4, OneAttempt
<1> QED
  BY <1>1, <1>3, <1>4, <1>5, <1>6, <1>7, CommitKeeps, WriteKeeps DEF Tr!Next

\* No read-modify-write of an interactive transaction is lost (transaction.ts over
\* the transaction adapter): each document's content counts exactly the
\* acknowledged updates of it, for any documents, transactions, retries, writers
\* outside and migrations written back inside, with the write-back on or off.
THEOREM TransactionsTheorem == Tr!Spec => []Tr!NoUpdateLost
<1>1. Tr!Init => TransactionsInv
  <2> SUFFICES ASSUME Tr!Init PROVE TransactionsInv
    OBVIOUS
  <2>1. /\ Tr!Idle \in Attempts
        /\ FromSeen(Tr!Idle.writes, Tr!Idle.seen) /\ Stands(Tr!Idle.seen, Tr!Idle.held)
    <3>1. Tr!Idle = [Tr!Fresh(0) EXCEPT !.phase = "idle"]
      BY DEF Tr!Idle
    <3>2. /\ Tr!Fresh(0) \in Attempts
          /\ FromSeen(Tr!Fresh(0).writes, Tr!Fresh(0).seen)
          /\ Stands(Tr!Fresh(0).seen, Tr!Fresh(0).held)
      BY FreshIs
    <3>3. /\ Tr!Idle \in Attempts /\ Tr!Idle.writes = Tr!Fresh(0).writes
          /\ Tr!Idle.seen = Tr!Fresh(0).seen /\ Tr!Idle.held = Tr!Fresh(0).held
      BY <3>1, <3>2 DEF Attempts
    <3> QED
      BY <3>2, <3>3
  <2>2. \A d \in Records : txStore[d] \in [val : Nat, rev : Nat, behind : BOOLEAN]
                        /\ txStore[d].val = 0
    <3> TAKE d \in Records
    <3>1. PICK b \in BOOLEAN : txStore[d] = [val |-> 0, rev |-> 0, behind |-> b]
      BY DEF Tr!Init
    <3> QED
      BY <3>1
  <2>3. TransactionsType /\ Tr!NoUpdateLost
    BY <2>1, <2>2 DEF Tr!Init, TransactionsType, Tr!NoUpdateLost
  <2> QED
    BY <2>1, <2>3 DEF Tr!Init, TransactionsInv
<1>2. TransactionsInv /\ [Tr!Next]_(Tr!vars) => TransactionsInv'
  BY TransactionsStep
<1>3. TransactionsInv => Tr!NoUpdateLost
  BY DEF TransactionsInv
<1> QED
  BY <1>1, <1>2, <1>3, PTL DEF Tr!Spec

-----------------------------------------------------------------------------
(* Batches: every operation is accounted for.                               *)

\* What a buffer may hold.
Ops == [type : {"set", "update", "delete"}, doc : Records, id : Nat]

\* The operations of a buffer with one more.
LEMMA IdsOf ==
  ASSUME NEW ops \in Seq(Ops), NEW op \in Ops
  PROVE  /\ Ba!Ids(<<>>) = {}
         /\ Ba!Ids(Append(ops, op)) = Ba!Ids(ops) \cup {op.id}
<1>1. DOMAIN Append(ops, op) = DOMAIN ops \cup {Len(ops) + 1}
  OBVIOUS
<1>2. /\ Append(ops, op)[Len(ops) + 1] = op
      /\ \A i \in DOMAIN ops : Append(ops, op)[i] = ops[i]
  OBVIOUS
<1>3. Ba!Ids(Append(ops, op)) = Ba!Ids(ops) \cup {op.id}
  BY <1>1, <1>2 DEF Ba!Ids
<1>4. DOMAIN <<>> = {}
  OBVIOUS
<1>5. Ba!Ids(<<>>) = {}
  BY <1>4 DEF Ba!Ids
<1> QED
  BY <1>3, <1>5

\* The operations the c-th commit has sent and waits for.
Way(c) == Ba!Ids(flights[c].ops)

Calls == 1..MaxCommits

\* Every operation is in the store, was reported, waits, is on its way or late.
Tracked(i) ==
  \/ i \in applied \cup refused \cup Ba!Ids(buffer) \cup late
  \/ \E c \in Calls : i \in Way(c)

Typed ==
  /\ kind \in Kinds /\ commits \in Nat /\ added \in Nat
  /\ buffer \in Seq(Ops)
  /\ flights \in [Calls -> [stage : {"quiet", "schema", "sent"}, ops : Seq(Ops)]]

\* Only operations of the batch are anywhere.
Within ==
  /\ applied \cup refused \cup Ba!Ids(buffer) \subseteq 1..added
  /\ \A c \in Calls : Way(c) \subseteq 1..added

AllTracked == \A i \in 1..added : Tracked(i)

\* A commit has something on its way once it has been called and has sent it.
Stages ==
  /\ \A c \in Calls : flights[c].stage # "sent" => Way(c) = {}
  /\ commits = 0 => applied = {}
  /\ \A c \in Calls : c > commits => flights[c].stage = "quiet"
  /\ kind # "sqlite" => \A c \in Calls : flights[c].stage # "schema"

\* What an answer of SQLite clears has been sent or came late.
Unanswered ==
  kind = "sqlite" =>
    \A c \in Calls : flights[c].stage = "sent" => Ba!Ids(buffer) \subseteq Way(c) \cup late

\* Firestore's batch keeps what it has sent.
Kept ==
  kind = "firestore" /\ commits > 0 =>
    \A i \in Ba!Ids(buffer) : i \in applied \cup refused \/ \E c \in Calls : i \in Way(c)

Apart == kind = "object" => \A c \in Calls : Ba!Ids(buffer) \cap Way(c) = {}

\* Only what was sent twice is on its way twice, or stored and on its way.
Pairs == \A c, e \in Calls : c # e => Way(c) \cap Way(e) \subseteq doubled
Repeats == \A c \in Calls : Way(c) \cap applied \subseteq refused \cup doubled
Waiting == kind # "firestore" => Ba!Ids(buffer) \cap applied \subseteq refused \cup doubled

Ledger ==
  /\ Typed /\ Within /\ AllTracked /\ Stages /\ Unanswered
  /\ Kept /\ Apart /\ Pairs /\ Repeats /\ Waiting

\* What the flights are after one of them changed.
LEMMA OneFlight ==
  ASSUME NEW c \in Calls, NEW stage \in {"quiet", "schema", "sent"}, NEW ops \in Seq(Ops),
         flights \in [Calls -> [stage : {"quiet", "schema", "sent"}, ops : Seq(Ops)]],
         flights' = [flights EXCEPT ![c] = [stage |-> stage, ops |-> ops]]
  PROVE  /\ flights' \in [Calls -> [stage : {"quiet", "schema", "sent"}, ops : Seq(Ops)]]
         /\ flights'[c].stage = stage /\ Way(c)' = Ba!Ids(ops)
         /\ \A e \in Calls : e # c => flights'[e] = flights[e] /\ Way(e)' = Way(e)
<1>1. flights'[c] = [stage |-> stage, ops |-> ops]
  OBVIOUS
<1>2. \A e \in Calls : e # c => flights'[e] = flights[e]
  OBVIOUS
<1>3. Way(c)' = Ba!Ids(ops)
  BY <1>1 DEF Way, Ba!Ids
<1>4. \A e \in Calls : e # c => Way(e)' = Way(e)
  BY <1>2 DEF Way, Ba!Ids
<1> QED
  BY <1>1, <1>2, <1>3, <1>4

\* What is not rewritten keeps its operations.
LEMMA SameFlights ==
  ASSUME UNCHANGED flights
  PROVE  \A c \in Calls : Way(c)' = Way(c)
BY DEF Way, Ba!Ids

LEMMA SameBuffer ==
  ASSUME UNCHANGED buffer
  PROVE  Ba!Ids(buffer)' = Ba!Ids(buffer)
BY DEF Ba!Ids

\* Each step of a batch keeps the ledger.
LEMMA LedgerStep ==
  ASSUME Ba!KindsAssumption, Ledger, [Ba!Next]_(Ba!vars)
  PROVE  Ledger'
<1> DEFINE Sets == [stage : {"quiet", "schema", "sent"}, ops : Seq(Ops)]
<1> USE DEF Ledger
<1>0. /\ Kinds \subseteq {"firestore", "sqlite", "object"} /\ MaxCommits \in Nat
      /\ Ba!Ids(<<>>) = {} /\ <<>> \in Seq(Ops)
  BY DEF Ba!KindsAssumption, Ba!Ids
<1>1. CASE UNCHANGED Ba!vars
  <2>1. /\ UNCHANGED <<kind, buffer, flights, commits, added, applied, refused, late, doubled>>
        /\ Ba!Ids(buffer)' = Ba!Ids(buffer)
        /\ \A c \in Calls : Way(c)' = Way(c)
    BY <1>1, SameFlights, SameBuffer DEF Ba!vars
  <2> QED
    BY <2>1 DEF Typed, Within, AllTracked, Tracked, Stages, Unanswered, Kept, Apart, Pairs, Repeats, Waiting
<1>2. ASSUME NEW type \in {"set", "update", "delete"}, NEW d \in Records, Ba!Add(type, d)
      PROVE  Ledger'
  <2> DEFINE op == [type |-> type, doc |-> d, id |-> added + 1]
  <2>0. added \in Nat /\ buffer \in Seq(Ops)
    BY DEF Typed
  <2>1. op \in Ops
    BY <2>0 DEF Ops
  <2>2. /\ buffer' = Append(buffer, op) /\ added' = added + 1
        /\ UNCHANGED <<kind, flights, commits, applied, refused, doubled>>
        /\ (kind = "firestore" => commits = 0)
        /\ late' = IF kind = "sqlite" /\ Ba!Sending # {} THEN late \cup {added + 1} ELSE late
    BY <1>2 DEF Ba!Add
  <2>3. Ba!Ids(buffer)' = Ba!Ids(buffer) \cup {added + 1}
    <3>1. op.id = added + 1
      OBVIOUS
    <3>2. Ba!Ids(Append(buffer, op)) = Ba!Ids(buffer) \cup {op.id}
      BY <2>0, <2>1, IdsOf
    <3>3. Ba!Ids(buffer)' = Ba!Ids(Append(buffer, op))
      BY <2>2 DEF Ba!Ids
    <3> QED
      BY <3>1, <3>2, <3>3
  <2>4. \A c \in Calls : Way(c)' = Way(c)
    BY <2>2, SameFlights
  <2>5. 1..added' = (1..added) \cup {added + 1} /\ added + 1 \notin 1..added
    BY <2>0, <2>2
  <2>6. buffer' \in Seq(Ops) /\ added' \in Nat
    BY <2>0, <2>1, <2>2
  <2>7. late \subseteq late'
    BY <2>2
  <2>8. ASSUME NEW c \in Calls, kind = "sqlite", flights[c].stage = "sent"
        PROVE  added + 1 \in late'
    BY <2>2, <2>8 DEF Ba!Sending, Calls
  <2> HIDE DEF op
  <2>20. Typed'
    BY <2>2, <2>6 DEF Typed
  <2>21. Within'
    BY <2>2, <2>3, <2>4, <2>5 DEF Within
  <2>22. AllTracked'
    BY <2>2, <2>3, <2>4, <2>5, <2>7 DEF AllTracked, Tracked
  <2>23. Stages'
    BY <2>2, <2>3, <2>4, <2>5 DEF Stages
  <2>24. Unanswered'
    BY <2>2, <2>3, <2>4, <2>7, <2>8 DEF Unanswered
  <2>25. Kept'
    BY <2>2 DEF Kept
  <2>26. Apart'
    BY <2>2, <2>3, <2>4, <2>5 DEF Apart, Within
  <2>27. Pairs'
    BY <2>2, <2>3, <2>4, <2>5 DEF Pairs
  <2>28. Repeats'
    BY <2>2, <2>3, <2>4, <2>5 DEF Repeats
  <2>29. Waiting'
    BY <2>2, <2>3, <2>4, <2>5 DEF Waiting, Within
  <2> QED
    BY <2>20, <2>21, <2>22, <2>23, <2>24, <2>25, <2>26, <2>27, <2>28, <2>29
<1>3. CASE Ba!Commit
  <2> DEFINE ops == IF kind = "sqlite" THEN <<>> ELSE buffer
             stage == IF kind = "sqlite" THEN "schema" ELSE "sent"
  <2>types. commits \in Nat /\ buffer \in Seq(Ops) /\ flights \in [Calls -> Sets]
    BY DEF Typed
  <2>index. commits + 1 \in Calls
    BY <1>0, <1>3, <2>types DEF Ba!Commit, Calls
  <2>1. PICK c \in Calls : c = commits + 1
    BY <2>index
  <2>0. commits \in Nat /\ c \in Nat /\ c > 0 /\ buffer \in Seq(Ops) /\ flights \in [Calls -> Sets]
    BY <2>types, <2>1
  <2>2. /\ commits' = c
        /\ UNCHANGED <<kind, added, applied, refused, late>>
        /\ buffer' = IF kind = "object" THEN <<>> ELSE buffer
        /\ doubled' = IF kind = "firestore" /\ commits > 0 THEN doubled \cup Ba!Ids(buffer) ELSE doubled
    BY <1>3, <2>1 DEF Ba!Commit
  <2>3. flights' = [flights EXCEPT ![c] = [stage |-> stage, ops |-> ops]]
    <3>1. CASE kind = "sqlite"
      BY <1>3, <2>1, <3>1 DEF Ba!Commit
    <3>2. CASE kind # "sqlite"
      BY <1>3, <2>1, <3>2 DEF Ba!Commit, Ba!Sent
    <3> QED
      BY <3>1, <3>2
  <2>4. ops \in Seq(Ops) /\ stage \in {"quiet", "schema", "sent"}
    BY <1>0, <2>0
  <2>5. /\ Ba!Ids(ops) = IF kind = "sqlite" THEN {} ELSE Ba!Ids(buffer)
        /\ stage = IF kind = "sqlite" THEN "schema" ELSE "sent"
    BY <1>0
  <2>6. Ba!Ids(buffer)' = (IF kind = "object" THEN {} ELSE Ba!Ids(buffer)) /\ buffer' \in Seq(Ops)
    <3>1. CASE kind = "object"
      BY <1>0, <2>2, <3>1 DEF Ba!Ids
    <3>2. CASE kind # "object"
      BY <2>0, <2>2, <3>2, SameBuffer
    <3> QED
      BY <3>1, <3>2
  <2> HIDE DEF ops, stage
  <2>7. /\ flights' \in [Calls -> Sets] /\ flights'[c].stage = stage /\ Way(c)' = Ba!Ids(ops)
        /\ \A e \in Calls : e # c => flights'[e] = flights[e] /\ Way(e)' = Way(e)
    BY <2>0, <2>1, <2>3, <2>4, OneFlight
  <2>8. Way(c)' = IF kind = "sqlite" THEN {} ELSE Ba!Ids(buffer)
    BY <2>5, <2>7
  <2>9. Way(c) = {}
    BY <2>0, <2>1 DEF Stages
  <2>10. commits = 0 => applied = {} /\ \A e \in Calls : Way(e) = {}
    <3>1. ASSUME commits = 0, NEW e \in Calls
          PROVE  flights[e].stage = "quiet"
      BY <1>0, <3>1 DEF Stages, Calls
    <3> QED
      BY <3>1 DEF Stages
  <2>11. \A e \in Calls : e > commits' => flights'[e].stage = "quiet"
    <3>1. \A e \in Calls : e > c => e # c /\ flights[e].stage = "quiet"
      BY <1>0, <2>0, <2>1 DEF Stages, Calls
    <3> QED
      BY <2>2, <2>7, <3>1
  <2>12. \A e \in Calls : Way(e)' = IF e = c THEN Way(c)' ELSE Way(e)
    BY <2>7
  <2>13. CASE kind = "sqlite"
    <3>1. Ba!Ids(buffer)' = Ba!Ids(buffer) /\ doubled' = doubled
      BY <2>2, <2>6, <2>13
    <3>2. flights'[c].stage = "schema" /\ Way(c)' = {}
      BY <2>5, <2>7, <2>8, <2>13
    <3>3. \A e \in Calls : Way(e)' = Way(e)
      BY <2>9, <2>12, <3>2
    <3>20. Typed'
      BY <2>0, <2>2, <2>6, <2>7 DEF Typed
    <3>21. Within'
      BY <2>2, <3>1, <3>3 DEF Within
    <3>22. AllTracked'
      BY <2>2, <3>1, <3>3 DEF AllTracked, Tracked
    <3>23. Stages'
      BY <2>0, <2>2, <2>7, <2>11, <2>13, <3>2, <3>3 DEF Stages
    <3>24. Unanswered'
      BY <2>2, <2>7, <3>1, <3>2, <3>3 DEF Unanswered
    <3>25. Kept'
      BY <2>2, <2>13 DEF Kept
    <3>26. Apart'
      BY <2>2, <2>13 DEF Apart
    <3>27. Pairs'
      BY <2>2, <3>1, <3>3 DEF Pairs
    <3>28. Repeats'
      BY <2>2, <3>1, <3>3 DEF Repeats
    <3>29. Waiting'
      BY <2>2, <3>1, <3>3 DEF Waiting
    <3> QED
      BY <3>20, <3>21, <3>22, <3>23, <3>24, <3>25, <3>26, <3>27, <3>28, <3>29
  <2>14. CASE kind = "object"
    <3>1. Ba!Ids(buffer)' = {} /\ doubled' = doubled
      BY <2>2, <2>6, <2>14
    <3>2. flights'[c].stage = "sent" /\ Way(c)' = Ba!Ids(buffer)
      BY <2>5, <2>7, <2>8, <2>14
    <3>3. \A e \in Calls : Way(e)' = IF e = c THEN Ba!Ids(buffer) ELSE Way(e)
      BY <2>12, <3>2
    <3>20. Typed'
      BY <2>0, <2>2, <2>6, <2>7 DEF Typed
    <3>21. Within'
      BY <2>2, <2>14, <3>1, <3>3 DEF Within
    <3>22. AllTracked'
      BY <2>1, <2>2, <2>9, <3>1, <3>3 DEF AllTracked, Tracked
    <3>23. Stages'
      BY <2>0, <2>2, <2>7, <2>11, <2>14, <3>2, <3>3 DEF Stages
    <3>24. Unanswered'
      BY <2>2, <2>14 DEF Unanswered
    <3>25. Kept'
      BY <2>2, <2>14 DEF Kept
    <3>26. Apart'
      BY <2>2, <2>14, <3>1, <3>3 DEF Apart
    <3>27. Pairs'
      BY <2>2, <2>14, <3>1, <3>3 DEF Apart, Pairs
    <3>28. Repeats'
      BY <2>2, <2>14, <3>1, <3>3 DEF Repeats, Waiting
    <3>29. Waiting'
      BY <2>2, <2>14, <3>1, <3>3 DEF Waiting
    <3> QED
      BY <3>20, <3>21, <3>22, <3>23, <3>24, <3>25, <3>26, <3>27, <3>28, <3>29
  <2>15. CASE kind = "firestore"
    <3>1. /\ Ba!Ids(buffer)' = Ba!Ids(buffer)
          /\ doubled' = IF commits > 0 THEN doubled \cup Ba!Ids(buffer) ELSE doubled
      BY <2>2, <2>6, <2>15
    <3>2. flights'[c].stage = "sent" /\ Way(c)' = Ba!Ids(buffer)
      BY <2>5, <2>7, <2>8, <2>15
    <3>3. \A e \in Calls : Way(e)' = IF e = c THEN Ba!Ids(buffer) ELSE Way(e)
      BY <2>12, <3>2
    <3>4. Repeats'
      <4>1. CASE commits = 0
        BY <2>2, <2>10, <4>1 DEF Repeats
      <4>2. CASE commits > 0
        BY <2>2, <3>1, <3>3, <4>2 DEF Repeats
      <4> QED
        BY <2>0, <4>1, <4>2
    <3>5. Pairs'
      <4>1. CASE commits = 0
        BY <2>10, <3>3, <4>1 DEF Pairs
      <4>2. CASE commits > 0
        BY <3>1, <3>3, <4>2 DEF Pairs
      <4> QED
        BY <2>0, <4>1, <4>2
    <3>20. Typed'
      BY <2>0, <2>2, <2>6, <2>7 DEF Typed
    <3>21. Within'
      BY <2>2, <2>15, <3>1, <3>3 DEF Within
    <3>22. AllTracked'
      BY <2>1, <2>2, <2>9, <3>1, <3>3 DEF AllTracked, Tracked
    <3>23. Stages'
      BY <2>0, <2>2, <2>7, <2>11, <2>15, <3>2, <3>3 DEF Stages
    <3>24. Unanswered'
      BY <2>2, <2>15 DEF Unanswered
    <3>25. Kept'
      BY <2>1, <2>2, <3>1, <3>3 DEF Kept
    <3>26. Apart'
      BY <2>2, <2>15 DEF Apart
    <3>27. Pairs'
      BY <3>5 DEF Pairs
    <3>28. Repeats'
      BY <3>4 DEF Repeats
    <3>29. Waiting'
      BY <2>2, <2>15 DEF Waiting
    <3> QED
      BY <3>20, <3>21, <3>22, <3>23, <3>24, <3>25, <3>26, <3>27, <3>28, <3>29
  <2> QED
    BY <1>0, <2>13, <2>14, <2>15 DEF Typed
<1>4. ASSUME NEW c \in Calls, Ba!Sends(c)
      PROVE  Ledger'
  <2>1. /\ flights[c].stage = "schema" /\ doubled' = doubled \cup (Ba!Ids(buffer) \cap Ba!OnTheirWay)
        /\ flights' = [flights EXCEPT ![c] = [stage |-> "sent", ops |-> buffer]]
        /\ UNCHANGED <<kind, buffer, commits, added, applied, refused, late>>
    BY <1>4 DEF Ba!Sends, Ba!Sent
  <2>2. buffer \in Seq(Ops) /\ flights \in [Calls -> Sets] /\ commits \in Nat /\ kind = "sqlite"
    BY <1>0, <2>1 DEF Typed, Stages
  <2>3. /\ flights' \in [Calls -> Sets] /\ flights'[c].stage = "sent" /\ Way(c)' = Ba!Ids(buffer)
        /\ \A e \in Calls : e # c => flights'[e] = flights[e] /\ Way(e)' = Way(e)
    BY <2>1, <2>2, OneFlight
  <2>4. Ba!Ids(buffer)' = Ba!Ids(buffer) /\ Way(c) = {}
    BY <2>1, SameBuffer DEF Stages
  <2>5. \A e \in Calls : Way(e) \subseteq Ba!OnTheirWay
    <3>1. ASSUME NEW e \in Calls, flights[e].stage = "sent"
          PROVE  Way(e) \subseteq Ba!OnTheirWay
      BY <3>1 DEF Ba!OnTheirWay, Ba!Sending, Way, Calls
    <3> QED
      BY <3>1 DEF Stages
  <2>6. \A e \in Calls : Ba!Ids(buffer) \cap Way(e) \subseteq doubled'
    BY <2>1, <2>5
  <2>7. doubled \subseteq doubled'
    BY <2>1
  <2>8. ~(c > commits)
    BY <2>1 DEF Stages
  <2>9. \A e \in Calls : Way(e)' = IF e = c THEN Ba!Ids(buffer) ELSE Way(e)
    BY <2>3
  <2>20. Typed'
    BY <2>1, <2>2, <2>3 DEF Typed
  <2>21. Within'
    BY <2>1, <2>2, <2>4, <2>9 DEF Within
  <2>22. AllTracked'
    BY <2>1, <2>2, <2>4, <2>9 DEF AllTracked, Tracked
  <2>23. Stages'
    BY <2>1, <2>2, <2>3, <2>8, <2>9 DEF Stages
  <2>24. Unanswered'
    BY <2>1, <2>3, <2>4, <2>9 DEF Unanswered
  <2>25. Kept'
    BY <2>1, <2>2 DEF Kept
  <2>26. Apart'
    BY <2>1, <2>2 DEF Apart
  <2>27. Pairs'
    BY <2>6, <2>7, <2>9 DEF Pairs
  <2>28. Repeats'
    BY <2>1, <2>2, <2>7, <2>9 DEF Waiting, Repeats
  <2>29. Waiting'
    BY <2>1, <2>4, <2>7 DEF Waiting
  <2> QED
    BY <2>20, <2>21, <2>22, <2>23, <2>24, <2>25, <2>26, <2>27, <2>28, <2>29
<1>5. ASSUME NEW c \in Calls, Ba!SchemaFails(c)
      PROVE  Ledger'
  <2>1. /\ flights[c].stage = "schema"
        /\ flights' = [flights EXCEPT ![c] = [stage |-> "quiet", ops |-> <<>>]]
        /\ UNCHANGED <<kind, buffer, commits, added, applied, refused, late, doubled>>
    BY <1>5 DEF Ba!SchemaFails, Ba!Quiet
  <2>2. flights \in [Calls -> Sets]
    BY DEF Typed
  <2>3. /\ flights' \in [Calls -> Sets] /\ flights'[c].stage = "quiet" /\ Way(c)' = {}
        /\ \A e \in Calls : e # c => flights'[e] = flights[e] /\ Way(e)' = Way(e)
    BY <1>0, <2>1, <2>2, OneFlight
  <2>4. Ba!Ids(buffer)' = Ba!Ids(buffer) /\ \A e \in Calls : Way(e)' = Way(e)
    BY <2>1, <2>3, SameBuffer DEF Stages
  <2>20. Typed'
    BY <2>1, <2>3 DEF Typed
  <2>21. Within'
    BY <2>1, <2>4 DEF Within
  <2>22. AllTracked'
    BY <2>1, <2>4 DEF AllTracked, Tracked
  <2>23. Stages'
    BY <2>1, <2>3, <2>4 DEF Stages
  <2>24. Unanswered'
    BY <2>1, <2>3, <2>4 DEF Unanswered
  <2>25. Kept'
    BY <2>1, <2>4 DEF Kept
  <2>26. Apart'
    BY <2>1, <2>4 DEF Apart
  <2>27. Pairs'
    BY <2>1, <2>4 DEF Pairs
  <2>28. Repeats'
    BY <2>1, <2>4 DEF Repeats
  <2>29. Waiting'
    BY <2>1, <2>4 DEF Waiting
  <2> QED
    BY <2>20, <2>21, <2>22, <2>23, <2>24, <2>25, <2>26, <2>27, <2>28, <2>29
<1>6. ASSUME NEW c \in Calls, Ba!Applies(c)
      PROVE  Ledger'
  <2>1. /\ flights[c].stage = "sent" /\ applied' = applied \cup Way(c)
        /\ flights' = [flights EXCEPT ![c] = [stage |-> "quiet", ops |-> <<>>]]
        /\ buffer' = Ba!Emptied
        /\ UNCHANGED <<kind, commits, added, refused, late, doubled>>
    BY <1>6 DEF Ba!Applies, Ba!Quiet, Way
  <2>2. flights \in [Calls -> Sets] /\ buffer \in Seq(Ops)
    BY DEF Typed
  <2>3. /\ flights' \in [Calls -> Sets] /\ flights'[c].stage = "quiet" /\ Way(c)' = {}
        /\ \A e \in Calls : e # c => flights'[e] = flights[e] /\ Way(e)' = Way(e)
    BY <1>0, <2>1, <2>2, OneFlight
  <2>4. Ba!Ids(buffer)' = (IF kind = "sqlite" THEN {} ELSE Ba!Ids(buffer)) /\ buffer' \in Seq(Ops)
    <3>1. CASE kind = "sqlite"
      BY <1>0, <2>1, <3>1 DEF Ba!Ids, Ba!Emptied
    <3>2. CASE kind # "sqlite"
      BY <2>1, <2>2, <3>2, SameBuffer DEF Ba!Emptied
    <3> QED
      BY <3>1, <3>2
  <2>5. \A e \in Calls : Way(e)' = IF e = c THEN {} ELSE Way(e)
    BY <2>3
  <2>6. commits # 0
    BY <1>0, <2>1 DEF Stages, Calls
  <2>20. Typed'
    BY <2>1, <2>3, <2>4 DEF Typed
  <2>21. Within'
    BY <2>1, <2>4, <2>5 DEF Within
  <2>22. AllTracked'
    BY <2>1, <2>4, <2>5 DEF Unanswered, AllTracked, Tracked
  <2>23. Stages'
    BY <2>1, <2>3, <2>5, <2>6 DEF Stages
  <2>24. Unanswered'
    BY <2>1, <2>4 DEF Unanswered
  <2>25. Kept'
    BY <2>1, <2>4, <2>5 DEF Kept
  <2>26. Apart'
    BY <2>1, <2>4, <2>5 DEF Apart
  <2>27. Pairs'
    BY <2>1, <2>4, <2>5 DEF Pairs
  <2>28. Repeats'
    BY <2>1, <2>5 DEF Pairs, Repeats
  <2>29. Waiting'
    BY <1>0, <2>1, <2>4 DEF Typed, Apart, Waiting
  <2> QED
    BY <2>20, <2>21, <2>22, <2>23, <2>24, <2>25, <2>26, <2>27, <2>28, <2>29
<1>7. ASSUME NEW c \in Calls, NEW reached \in BOOLEAN, Ba!Rejects(c, reached)
      PROVE  Ledger'
  <2>1. /\ flights[c].stage = "sent" /\ applied \subseteq applied' /\ applied' \subseteq applied \cup Way(c)
        /\ refused' = refused \cup Way(c)
        /\ flights' = [flights EXCEPT ![c] = [stage |-> "quiet", ops |-> <<>>]]
        /\ UNCHANGED <<kind, buffer, commits, added, late, doubled>>
    BY <1>7 DEF Ba!Rejects, Ba!Quiet, Way
  <2>2. flights \in [Calls -> Sets]
    BY DEF Typed
  <2>3. /\ flights' \in [Calls -> Sets] /\ flights'[c].stage = "quiet" /\ Way(c)' = {}
        /\ \A e \in Calls : e # c => flights'[e] = flights[e] /\ Way(e)' = Way(e)
    BY <1>0, <2>1, <2>2, OneFlight
  <2>4. Ba!Ids(buffer)' = Ba!Ids(buffer)
    BY <2>1, SameBuffer
  <2>5. \A e \in Calls : Way(e)' = IF e = c THEN {} ELSE Way(e)
    BY <2>3
  <2>6. commits # 0
    BY <1>0, <2>1 DEF Stages, Calls
  <2>20. Typed'
    BY <2>1, <2>3 DEF Typed
  <2>21. Within'
    BY <2>1, <2>4, <2>5 DEF Within
  <2>22. AllTracked'
    BY <2>1, <2>4, <2>5 DEF AllTracked, Tracked
  <2>23. Stages'
    BY <2>1, <2>3, <2>5, <2>6 DEF Stages
  <2>24. Unanswered'
    BY <2>1, <2>3, <2>4, <2>5 DEF Unanswered
  <2>25. Kept'
    BY <2>1, <2>4, <2>5 DEF Kept
  <2>26. Apart'
    BY <2>1, <2>4, <2>5 DEF Apart
  <2>27. Pairs'
    BY <2>1, <2>4, <2>5 DEF Pairs
  <2>28. Repeats'
    BY <2>1, <2>5 DEF Pairs, Repeats
  <2>29. Waiting'
    BY <2>1, <2>4, <2>5 DEF Waiting
  <2> QED
    BY <2>20, <2>21, <2>22, <2>23, <2>24, <2>25, <2>26, <2>27, <2>28, <2>29
<1> QED
  BY <1>1, <1>2, <1>3, <1>4, <1>5, <1>6, <1>7 DEF Ba!Next, Calls

\* Every operation a caller adds to a batch ends in the store or among those a
\* rejected commit had sent, but for those added while SQLite's statements are
\* on their way; and none is written twice in silence but for those that two
\* commits had on their way: for any documents, number of operations and of
\* commits under way at once, on the three families of stores (batch.ts).
THEOREM BatchesTheorem ==
  ASSUME Ba!KindsAssumption
  PROVE  Ba!Spec => Ba!BatchesAccount
<1> DEFINE Twice ==
      \A c \in Calls :
        /\ flights[c].stage = "sent" /\ flights'[c].stage = "quiet"
        /\ applied' # applied \/ batchStore' # batchStore
        => Ba!Ids(flights[c].ops) \cap applied \subseteq refused \cup doubled
<1>1. Ba!Init => Ledger
  <2>1. SUFFICES ASSUME Ba!Init
                 PROVE  Ledger
    OBVIOUS
  <2>2. \A c \in Calls : flights[c] = Ba!Quiet
    BY <2>1 DEF Ba!Init, Calls
  <2>3. Ba!Ids(buffer) = {} /\ \A c \in Calls : Way(c) = {}
    <3>1. Ba!Ids(<<>>) = {}
      BY DEF Ba!Ids
    <3>2. \A c \in Calls : flights[c].ops = <<>>
      BY <2>2 DEF Ba!Quiet
    <3> QED
      BY <2>1, <3>1, <3>2 DEF Ba!Init, Ba!Ids, Way
  <2>4. flights \in [Calls -> [stage : {"quiet", "schema", "sent"}, ops : Seq(Ops)]]
    BY <2>1 DEF Ba!Init, Ba!Quiet, Calls
  <2>5. \A c \in Calls : flights[c].stage = "quiet"
    BY <2>2 DEF Ba!Quiet
  <2>6. commits = 0 /\ added = 0 /\ applied = {} /\ refused = {} /\ kind \in Kinds /\ buffer = <<>>
    BY <2>1 DEF Ba!Init
  <2>7. Typed /\ Stages
    BY <2>3, <2>4, <2>5, <2>6 DEF Typed, Stages
  <2>8. Within /\ AllTracked /\ Unanswered /\ Kept
    BY <2>3, <2>5, <2>6 DEF Within, AllTracked, Tracked, Unanswered, Kept
  <2> QED
    BY <2>3, <2>6, <2>7, <2>8 DEF Ledger, Apart, Pairs, Repeats, Waiting
<1>2. Ledger /\ [Ba!Next]_(Ba!vars) => Ledger'
  BY LedgerStep
<1>3. Ledger => Ba!EveryOperationAccountedFor
  <2>1. SUFFICES ASSUME Ledger, \A c \in Calls : flights[c].stage = "quiet",
                        buffer = <<>> \/ (kind = "firestore" /\ commits > 0),
                        NEW i \in 1..added
                 PROVE  i \in applied \cup refused \cup late
    BY DEF Ba!EveryOperationAccountedFor, Calls
  <2>2. \A c \in Calls : Way(c) = {}
    BY <2>1 DEF Ledger, Stages
  <2>3. Tracked(i)
    BY <2>1 DEF Ledger, AllTracked
  <2>4. CASE buffer = <<>>
    BY <2>2, <2>3, <2>4 DEF Tracked, Ba!Ids
  <2>5. CASE kind = "firestore" /\ commits > 0
    BY <2>1, <2>2, <2>3, <2>5 DEF Tracked, Ledger, Kept
  <2> QED
    BY <2>1, <2>4, <2>5
<1>4. Ledger /\ [Ba!Next]_(Ba!vars) => [Twice]_(Ba!vars)
  BY DEF Ledger, Repeats, Way
<1> QED
  BY <1>1, <1>2, <1>3, <1>4, PTL DEF Ba!Spec, Ba!BatchesAccount, Ba!NothingAppliedTwice, Calls

-----------------------------------------------------------------------------
(* The three side by side: each moves as its own specification says.        *)

LEMMA MachinesAreSpecs == MCSpec => Spec /\ Tr!Spec /\ Ba!Spec
<1>1. MCInit => Init /\ Tr!Init /\ Ba!Init
  BY DEF MCInit
<1>2. [MCNext]_<<machine, vars, trVars, baVars>> =>
        [Next]_vars /\ [Tr!Next]_(Tr!vars) /\ [Ba!Next]_(Ba!vars)
  BY DEF MCNext, trVars, baVars, Tr!vars, Ba!vars
<1> QED
  BY <1>1, <1>2, PTL DEF MCSpec, Spec, Tr!Spec, Ba!Spec

\* No update a transaction made of what it read is lost, next to clients and batches.
THEOREM UpdatesTheorem == MCSpec => []NoUpdateLost
<1>1. TypeOK /\ Tr!NoUpdateLost => NoUpdateLost
  BY DEF NoUpdateLost
<1> QED
  BY <1>1, MachinesAreSpecs, TypeCorrect, TransactionsTheorem, PTL

\* Every operation of a batch is accounted for, next to clients and transactions.
THEOREM AccountTheorem ==
  ASSUME Ba!KindsAssumption
  PROVE  MCSpec => BatchesAccount
<1>1. Ba!Spec => Ba!BatchesAccount
  BY BatchesTheorem
<1> QED
  BY <1>1, MachinesAreSpecs, PTL DEF BatchesAccount

=============================================================================
