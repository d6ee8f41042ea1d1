------------------------- MODULE TerminalService_proofs -------------------------
(***************************************************************************)
(* The channels, entries and processes of the terminal service agree, and  *)
(* what it publishes is complete and in order, for any URIs, clients,      *)
(* requests and processes and any sizes of the batch and the screen.       *)
(***************************************************************************)
EXTENDS TerminalService, TLAPS

-----------------------------------------------------------------------------
(* The operators the actions are built from.                                *)

(* What Trim keeps is the end of what it is given.                          *)
LEMMA TrimKeepsEnd ==
  ASSUME NEW s \in Seq(Chunks)
  PROVE  /\ Trim(s) \in Seq(Chunks)
         /\ Len(Trim(s)) = IF Len(s) <= Retained THEN Len(s) ELSE Retained
         /\ \A i \in 1..Len(Trim(s)) : Trim(s)[i] = s[Len(s) - Len(Trim(s)) + i]
<1>1. CASE Len(s) <= Retained
  BY <1>1 DEF Trim
<1>2. CASE ~(Len(s) <= Retained)
  <2>1. Retained \in Nat /\ Len(s) \in Nat /\ Len(s) - Retained + 1 \in 1..(Len(s) + 1)
    BY <1>2, SizesAssumption
  <2>2. Trim(s) = SubSeq(s, Len(s) - Retained + 1, Len(s))
    BY <1>2 DEF Trim
  <2> QED
    BY <2>1, <2>2, <1>2
<1> QED
  BY <1>1, <1>2

(* Output changes nothing of a channel's state but its content.             *)
LEMMA OutputKeepsState ==
  ASSUME NEW x \in States, NEW chunks \in Seq(Chunks)
  PROVE  /\ WithOutput(x, chunks) \in States
         /\ WithOutput(x, chunks).content = Trim(x.content \o chunks)
         /\ WithOutput(x, chunks).status = x.status
         /\ WithOutput(x, chunks).title = x.title
         /\ WithOutput(x, chunks).owner = x.owner
<1>1. x.content \o chunks \in Seq(Chunks)
  BY DEF States
<1>2. Trim(x.content \o chunks) \in Seq(Chunks)
  BY <1>1, TrimKeepsEnd
<1> QED
  BY <1>1, <1>2 DEF WithOutput, States

(* The catalogue depends on titles and states of lifecycle only.            *)
LEMMA SameCatalogue ==
  ASSUME NEW es, NEW before, NEW after,
         \A u \in Uris : /\ (before[u] = None) <=> (after[u] = None)
                         /\ before[u] # None => /\ before[u].title = after[u].title
                                                /\ before[u].status = after[u].status
  PROVE  CatalogueOf(es, after) = CatalogueOf(es, before)
  BY DEF CatalogueOf

LEMMA CatalogueType ==
  ASSUME NEW es, NEW st \in [Uris -> States \union {None}]
  PROVE  CatalogueOf(es, st) \subseteq [resource : Uris, title : Titles, status : {"running", "exited"}]
  BY SizesAssumption DEF CatalogueOf, States

LEMMA NoticeTypes ==
  ASSUME NEW p \in Ptys, NEW chunks \in Seq(Chunks)
  PROVE  Data(p, chunks) \in Seq(Notices) /\ Exited(p) \in Seq(Notices)
<1>1. [pty |-> p, what |-> "data", chunks |-> chunks] \in Notices
  BY DEF Notices
<1>2. [pty |-> p, what |-> "exited", chunks |-> <<>>] \in Notices
  BY DEF Notices
<1> QED
  BY <1>1, <1>2 DEF Data, Exited

LEMMA EmptiedRecord ==
  ASSUME NEW record \in Records
  PROVE  /\ Emptied(record) \in Records
         /\ Emptied(record).pending = <<>>
         /\ Emptied(record).uri = record.uri
         /\ Emptied(record).proc = record.proc
         /\ Emptied(record).listening = record.listening
         /\ Emptied(record).read = record.read
         /\ Emptied(record).cleared = record.cleared
<1>1. <<>> \in Seq(Chunks)
  OBVIOUS
<1> QED
  BY <1>1 DEF Emptied, Records

LEMMA GrownRecord ==
  ASSUME NEW record \in Records, record.read < MaxChunks
  PROVE  /\ Grown(record) \in Records
         /\ Grown(record).pending = Append(record.pending, record.read + 1)
         /\ Grown(record).read = record.read + 1
         /\ Grown(record).uri = record.uri
         /\ Grown(record).proc = record.proc
         /\ Grown(record).listening = record.listening
         /\ Grown(record).cleared = record.cleared
<1>1. record.read + 1 \in 0..MaxChunks /\ record.read + 1 \in Chunks
  BY SizesAssumption DEF Records, Chunks
<1>2. Append(record.pending, record.read + 1) \in Seq(Chunks)
  BY <1>1 DEF Records
<1> QED
  BY <1>1, <1>2 DEF Grown, Records

LEMMA RemovedRecord ==
  ASSUME NEW record \in Records, NEW running \in BOOLEAN, NEW fate \in Fates
  PROVE  /\ Removed(record, running, fate) \in Records
         /\ Removed(record, running, fate).pending = <<>>
         /\ Removed(record, running, fate).uri = record.uri
         /\ Removed(record, running, fate).proc = IF running THEN fate ELSE record.proc
         /\ Removed(record, running, fate).listening = FALSE
         /\ Removed(record, running, fate).read = record.read
  BY EmptiedRecord DEF Removed, Records, ProcStates, Fates

-----------------------------------------------------------------------------
(* A process that has not been spawned has done nothing, and one that has   *)
(* ended or was removed has nothing waiting.                                 *)
IdleInv ==
  \A p \in Ptys : /\ pty[p].proc = "none" => pty[p] = Unborn
                  /\ pty[p].proc # "running" => pty[p].pending = <<>>

EntryInv == TypeOK /\ NoStrayTerminal /\ IdleInv

LEMMA InitEntry == Init => EntryInv
<1> SUFFICES ASSUME Init PROVE EntryInv
  OBVIOUS
<1>1. Unborn \in Records
  BY SizesAssumption DEF Unborn, Records, ProcStates
<1>2. TypeOK
  <2>1. sent \in [Uris -> Seq(Notices)]
    BY DEF Init
  <2>2. pty \in [Ptys -> Records]
    BY <1>1 DEF Init
  <2> QED
    BY <2>1, <2>2 DEF Init, TypeOK
<1>3. CatalogueOf(entries, store) = {}
  BY DEF Init, CatalogueOf
<1>4. \A p \in Ptys : pty[p].proc = "none" /\ ~pty[p].listening /\ pty[p].pending = <<>>
  BY DEF Init, Unborn
<1>5. NoStrayTerminal
  BY <1>3, <1>4 DEF Init, NoStrayTerminal
<1>6. IdleInv
  BY <1>4 DEF Init, IdleInv
<1> QED
  BY <1>2, <1>5, <1>6 DEF EntryInv

(* An entry stands for one process, and that is never another's.            *)
LEMMA EntryFacts ==
  ASSUME EntryInv, NEW u \in Uris, entries[u] # None
  PROVE  /\ entries[u] \in Ptys
         /\ store[u] \in States
         /\ pty[entries[u]] \in Records
         /\ pty[entries[u]].uri = u
         /\ pty[entries[u]].proc = store[u].status
         /\ pty[entries[u]].listening <=> store[u].status = "running"
         /\ Attached(entries[u])
  BY SizesAssumption DEF EntryInv, TypeOK, NoStrayTerminal, Attached

LEMMA AttachedFacts ==
  ASSUME EntryInv, NEW p \in Ptys, Attached(p)
  PROVE  /\ pty[p].uri \in Uris
         /\ entries[pty[p].uri] = p
         /\ entries[pty[p].uri] # None
         /\ \A u \in Uris : entries[u] = p => u = pty[p].uri
  BY SizesAssumption DEF EntryInv, TypeOK, NoStrayTerminal, Attached, Records

LEMMA CreateEntry ==
  ASSUME EntryInv, NEW r \in Requests, NEW u \in Uris, NEW c \in Clients, Create(r, u, c)
  PROVE  EntryInv'
  BY DEF EntryInv, TypeOK, NoStrayTerminal, IdleInv, Create, Attached, CatalogueOf

LEMMA CreateFailsEntry ==
  ASSUME EntryInv, NEW r \in Requests, CreateFails(r)
  PROVE  EntryInv'
  BY DEF EntryInv, TypeOK, NoStrayTerminal, IdleInv, CreateFails, Attached, CatalogueOf

LEMMA SpawnEntry ==
  ASSUME EntryInv, NEW r \in Requests, NEW p \in Ptys, Spawn(r, p)
  PROVE  EntryInv'
<1> DEFINE u == creating[r].uri
           c == creating[r].client
           born == [Unborn EXCEPT !.proc = "running", !.uri = u, !.listening = TRUE]
<1>1. u \in Uris /\ c \in Clients
  BY DEF EntryInv, TypeOK, Spawn
<1>2. /\ entries[u] = None /\ store[u] = None
      /\ pty[p].proc = "none"
      /\ pty' = [pty EXCEPT ![p] = born]
      /\ store' = [store EXCEPT ![u] = NewState(c)]
      /\ entries' = [entries EXCEPT ![u] = p]
      /\ catalogue' = CatalogueOf(entries', store')
      /\ creating' = [creating EXCEPT ![r] = None]
      /\ UNCHANGED <<closed, sent>>
  BY DEF Spawn, Available
<1>3. NewState(c) \in States /\ NewState(c) # None /\ NewState(c).status = "running"
  <2>1. NewState(c) \in States /\ NewState(c).status = "running"
    BY <1>1 DEF NewState, States, Titles
  <2> QED
    BY <2>1, SizesAssumption
<1>4. born \in Records /\ born.uri = u /\ born.proc = "running" /\ born.listening /\ born.pending = <<>>
  <2> DEFINE b1 == [Unborn EXCEPT !.proc = "running"]
             b2 == [b1 EXCEPT !.uri = u]
  <2>1. Unborn \in Records /\ Unborn.pending = <<>>
    BY SizesAssumption DEF Unborn, Records, ProcStates
  <2>2. b1 \in Records /\ b1.proc = "running" /\ b1.pending = <<>>
    BY <2>1 DEF Records, ProcStates
  <2>3. b2 \in Records /\ b2.proc = "running" /\ b2.uri = u /\ b2.pending = <<>>
    BY <2>2, <1>1 DEF Records
  <2>4. born = [b2 EXCEPT !.listening = TRUE]
    OBVIOUS
  <2> HIDE DEF born, b2
  <2> QED
    BY <2>3, <2>4 DEF Records
<1>5. TypeOK'
  <2>1. store' \in [Uris -> States \union {None}]
    BY <1>1, <1>2, <1>3 DEF EntryInv, TypeOK
  <2>2. catalogue' \subseteq [resource : Uris, title : Titles, status : {"running", "exited"}]
    BY <1>2, <2>1, CatalogueType
  <2>3. pty' \in [Ptys -> Records] /\ entries' \in [Uris -> Ptys \union {None}]
    BY <1>1, <1>2, <1>4 DEF EntryInv, TypeOK
  <2>4. creating' \in [Requests -> [uri : Uris, client : Clients] \union {None}]
    BY <1>2 DEF EntryInv, TypeOK
  <2> QED
    BY <1>2, <2>1, <2>2, <2>3, <2>4 DEF EntryInv, TypeOK
<1>6. \A v \in Uris : entries[v] # p
  <2> SUFFICES ASSUME NEW v \in Uris, entries[v] = p PROVE FALSE
    OBVIOUS
  <2>1. entries[v] # None
    BY SizesAssumption
  <2>2. pty[p].proc = store[v].status /\ store[v] \in States
    BY <2>1, EntryFacts
  <2> QED
    BY <2>2, <1>2 DEF States
<1>7. NoStrayTerminal'
  <2>1. ASSUME NEW v \in Uris
        PROVE  /\ (entries'[v] = None) <=> (store'[v] = None)
               /\ entries'[v] # None =>
                    /\ pty'[entries'[v]].uri = v
                    /\ pty'[entries'[v]].proc = store'[v].status
                    /\ pty'[entries'[v]].listening <=> store'[v].status = "running"
    <3>1. CASE v = u
      BY <3>1, <1>1, <1>2, <1>3, <1>4, SizesAssumption DEF EntryInv, TypeOK
    <3>2. CASE v # u
      BY <3>2, <2>1, <1>2, <1>6, SizesAssumption DEF EntryInv, TypeOK, NoStrayTerminal
    <3> QED
      BY <3>1, <3>2
  <2>2. ASSUME NEW q \in Ptys, pty'[q].proc = "running" \/ pty'[q].listening
        PROVE  Attached(q)'
    <3>1. CASE q = p
      BY <3>1, <1>1, <1>2, <1>4, SizesAssumption DEF EntryInv, TypeOK, Attached
    <3>2. CASE q # p
      <4>1. Attached(q)
        BY <3>2, <2>2, <1>2 DEF EntryInv, TypeOK, NoStrayTerminal
      <4> QED
        BY <4>1, <3>2, <1>2, SizesAssumption DEF EntryInv, TypeOK, Attached
    <3> QED
      BY <3>1, <3>2
  <2> QED
    BY <2>1, <2>2, <1>2 DEF NoStrayTerminal
<1>8. IdleInv'
  BY <1>2, <1>4 DEF EntryInv, TypeOK, IdleInv
<1> QED
  BY <1>5, <1>7, <1>8 DEF EntryInv

(* What most handlers do: they change an entry's record and its channel's   *)
(* state together, and publish the catalogue if that changes.               *)
Changes(p, record, state) ==
  /\ pty' = [pty EXCEPT ![p] = record]
  /\ store' = [store EXCEPT ![pty[p].uri] = state]
  /\ UNCHANGED <<creating, entries, closed>>
  /\ sent' \in [Uris -> Seq(Notices)]
  /\ \/ catalogue' = CatalogueOf(entries', store')
     \/ catalogue' = catalogue /\ closed
     \/ /\ catalogue' = catalogue
        /\ state.title = store[pty[p].uri].title /\ state.status = store[pty[p].uri].status

LEMMA ChangesEntry ==
  ASSUME EntryInv, NEW p \in Ptys, Attached(p), NEW record \in Records, NEW state \in States,
         record.uri = pty[p].uri, record.proc = state.status,
         record.listening <=> state.status = "running",
         record.proc # "running" => record.pending = <<>>,
         Changes(p, record, state)
  PROVE  EntryInv'
<1> DEFINE u == pty[p].uri
<1>1. u \in Uris /\ entries[u] = p /\ entries[u] # None /\ \A v \in Uris : entries[v] = p => v = u
  BY AttachedFacts
<1>2. store' \in [Uris -> States \union {None}] /\ pty' \in [Ptys -> Records] /\ entries' = entries
  BY <1>1 DEF Changes, EntryInv, TypeOK
<1>3. state # None /\ state.status # "none"
  BY SizesAssumption DEF States
<1>4. pty'[p] = record /\ store'[u] = state
  BY <1>1 DEF Changes, EntryInv, TypeOK
<1>5. \A v \in Uris : v # u => store'[v] = store[v]
  BY DEF Changes, EntryInv, TypeOK
<1>6. \A q \in Ptys : q # p => pty'[q] = pty[q]
  BY DEF Changes, EntryInv, TypeOK
<1>7. \A v \in Uris : v # u /\ entries[v] # None => pty'[entries[v]] = pty[entries[v]]
  <2> SUFFICES ASSUME NEW v \in Uris, v # u, entries[v] # None PROVE pty'[entries[v]] = pty[entries[v]]
    OBVIOUS
  <2>1. entries[v] \in Ptys /\ entries[v] # p
    BY <1>1, EntryFacts
  <2> QED
    BY <2>1, <1>6
<1>8. TypeOK'
  <2>1. catalogue' \subseteq [resource : Uris, title : Titles, status : {"running", "exited"}]
    <3>1. CatalogueOf(entries', store') \subseteq [resource : Uris, title : Titles, status : {"running", "exited"}]
      BY <1>2, CatalogueType
    <3> QED
      BY <3>1 DEF Changes, EntryInv, TypeOK
  <2> QED
    BY <1>2, <2>1 DEF Changes, EntryInv, TypeOK
<1>9. NoStrayTerminal'
  <2>1. ASSUME NEW v \in Uris
        PROVE  /\ (entries'[v] = None) <=> (store'[v] = None)
               /\ entries'[v] # None =>
                    /\ pty'[entries'[v]].uri = v
                    /\ pty'[entries'[v]].proc = store'[v].status
                    /\ pty'[entries'[v]].listening <=> store'[v].status = "running"
    <3>1. CASE v = u
      BY <3>1, <1>1, <1>2, <1>3, <1>4
    <3>2. CASE v # u
      BY <3>2, <2>1, <1>2, <1>5, <1>7 DEF EntryInv, NoStrayTerminal
    <3> QED
      BY <3>1, <3>2
  <2>2. ASSUME NEW q \in Ptys, pty'[q].proc = "running" \/ pty'[q].listening
        PROVE  Attached(q)'
    <3>1. CASE q = p
      BY <3>1, <1>1, <1>2, <1>4, SizesAssumption DEF Attached
    <3>2. CASE q # p
      BY <3>2, <2>2, <1>2, <1>6 DEF EntryInv, NoStrayTerminal, Attached
    <3> QED
      BY <3>1, <3>2
  <2>3. ~closed' => catalogue' = CatalogueOf(entries', store')
    <3>1. CASE catalogue' = CatalogueOf(entries', store')
      BY <3>1
    <3>2. CASE catalogue' = catalogue /\ closed
      BY <3>2 DEF Changes
    <3>3. CASE catalogue' = catalogue /\ state.title = store[u].title /\ state.status = store[u].status
      <4>1. \A v \in Uris : /\ (store[v] = None) <=> (store'[v] = None)
                            /\ store[v] # None => /\ store[v].title = store'[v].title
                                                  /\ store[v].status = store'[v].status
        BY <3>3, <1>1, <1>3, <1>4, <1>5 DEF EntryInv, NoStrayTerminal
      <4>2. CatalogueOf(entries, store') = CatalogueOf(entries, store)
        BY <4>1, SameCatalogue
      <4> QED
        BY <3>3, <4>2, <1>2 DEF EntryInv, NoStrayTerminal, Changes
    <3> QED
      BY <3>1, <3>2, <3>3 DEF Changes
  <2> QED
    BY <2>1, <2>2, <2>3 DEF NoStrayTerminal
<1>10. IdleInv'
  BY <1>3, <1>4, <1>6 DEF EntryInv, IdleInv, States
<1> QED
  BY <1>8, <1>9, <1>10 DEF EntryInv

LEMMA FlushEntry ==
  ASSUME EntryInv, NEW p \in Ptys, FlushFires(p)
  PROVE  EntryInv'
<1> DEFINE u == pty[p].uri
           record == Emptied(pty[p])
           state == WithOutput(store[u], pty[p].pending)
<1>1. pty[p] \in Records /\ pty[p].pending \in Seq(Chunks)
  BY DEF EntryInv, TypeOK, Records
<1>2. record \in Records /\ record.pending = <<>> /\ record.uri = u /\ record.proc = pty[p].proc
      /\ record.listening = pty[p].listening
  BY <1>1, EmptiedRecord
<1>3. CASE Attached(p)
  <2>1. u \in Uris /\ entries[u] = p /\ entries[u] # None
    BY <1>3, AttachedFacts
  <2>2. store[u] \in States /\ pty[p].proc = store[u].status /\ (pty[p].listening <=> store[u].status = "running")
    BY <2>1, EntryFacts
  <2>3. state \in States /\ state.status = store[u].status /\ state.title = store[u].title
    BY <1>1, <2>2, OutputKeepsState
  <2>4. sent' \in [Uris -> Seq(Notices)]
    <3>1. Data(p, pty[p].pending) \in Seq(Notices)
      BY <1>1, NoticeTypes
    <3>2. sent[u] \o Data(p, pty[p].pending) \in Seq(Notices)
      BY <3>1, <2>1 DEF EntryInv, TypeOK
    <3>3. sent' = [sent EXCEPT ![u] = @ \o Data(p, pty[p].pending)]
      BY <1>3 DEF FlushFires, Flush
    <3> QED
      BY <3>2, <3>3, <2>1 DEF EntryInv, TypeOK
  <2>5. Changes(p, record, state)
    BY <1>3, <2>3, <2>4 DEF Changes, FlushFires, Flush
  <2> HIDE DEF record, state
  <2> QED
    BY <1>2, <1>3, <2>2, <2>3, <2>5, ChangesEntry
<1>4. CASE ~Attached(p)
  <2>1. pty' = [pty EXCEPT ![p] = record] /\ UNCHANGED <<creating, entries, store, catalogue, closed, sent>>
    BY <1>4 DEF FlushFires, Flush
  <2>2. pty[p].proc # "running" /\ ~pty[p].listening
    BY <1>4 DEF EntryInv, NoStrayTerminal
  <2>3. pty[p].proc # "none"
    BY DEF FlushFires, EntryInv, IdleInv, Unborn
  <2>4. \A v \in Uris : entries[v] # p
    BY <1>4, EntryFacts, SizesAssumption
  <2> HIDE DEF record
  <2>5. \A q \in Ptys : /\ pty'[q].uri = pty[q].uri /\ pty'[q].proc = pty[q].proc
                        /\ pty'[q].listening = pty[q].listening
    BY <1>1, <1>2, <2>1 DEF EntryInv, TypeOK
  <2>6. TypeOK'
    BY <1>2, <2>1 DEF EntryInv, TypeOK
  <2>7. NoStrayTerminal'
    BY <2>1, <2>5, SizesAssumption DEF EntryInv, TypeOK, NoStrayTerminal, Attached
  <2>8. IdleInv'
    BY <1>2, <2>1, <2>2, <2>3 DEF EntryInv, TypeOK, IdleInv
  <2> QED
    BY <2>6, <2>7, <2>8 DEF EntryInv
<1> QED
  BY <1>3, <1>4

LEMMA OnDataEntry ==
  ASSUME EntryInv, NEW p \in Ptys, OnData(p)
  PROVE  EntryInv'
<1> DEFINE u == pty[p].uri
           grown == Grown(pty[p])
           pending == grown.pending
<1>1. pty[p] \in Records /\ pty[p].read < MaxChunks /\ pty[p].proc = "running" /\ Attached(p)
  BY DEF EntryInv, TypeOK, OnData
<1>2. grown \in Records /\ grown.uri = u /\ grown.proc = "running" /\ grown.listening = pty[p].listening
  BY <1>1, GrownRecord
<1>3. u \in Uris /\ entries[u] = p /\ entries[u] # None
  BY <1>1, AttachedFacts
<1>4. store[u] \in States /\ pty[p].proc = store[u].status /\ (pty[p].listening <=> store[u].status = "running")
  BY <1>3, EntryFacts
<1>5. pending \in Seq(Chunks)
  BY <1>2 DEF Records
<1>6. CASE Len(pending) >= Threshold
  <2> DEFINE record == Emptied(grown)
             state == WithOutput(store[u], pending)
  <2>1. record \in Records /\ record.pending = <<>> /\ record.uri = u /\ record.proc = "running"
        /\ record.listening = pty[p].listening
    BY <1>2, EmptiedRecord
  <2>2. state \in States /\ state.status = store[u].status /\ state.title = store[u].title
    BY <1>4, <1>5, OutputKeepsState
  <2>3. sent' \in [Uris -> Seq(Notices)]
    <3>1. Data(p, pending) \in Seq(Notices)
      BY <1>5, NoticeTypes
    <3>2. sent[u] \o Data(p, pending) \in Seq(Notices)
      BY <3>1, <1>3 DEF EntryInv, TypeOK
    <3>3. sent' = [sent EXCEPT ![u] = @ \o Data(p, pending)]
      BY <1>6 DEF OnData
    <3> QED
      BY <3>2, <3>3, <1>3 DEF EntryInv, TypeOK
  <2>4. Changes(p, record, state)
    BY <1>6, <2>2, <2>3 DEF Changes, OnData
  <2> HIDE DEF record, state
  <2> QED
    BY <1>1, <1>4, <2>1, <2>2, <2>4, ChangesEntry
<1>7. CASE ~(Len(pending) >= Threshold)
  <2>1. store' = [store EXCEPT ![u] = store[u]]
    BY <1>7, <1>3 DEF OnData, EntryInv, TypeOK
  <2>2. Changes(p, grown, store[u])
    BY <1>7, <2>1 DEF Changes, OnData, EntryInv, TypeOK
  <2> HIDE DEF grown
  <2> QED
    BY <1>1, <1>2, <1>4, <2>2, ChangesEntry
<1> QED
  BY <1>6, <1>7

LEMMA OnExitEntry ==
  ASSUME EntryInv, NEW p \in Ptys, OnExit(p)
  PROVE  EntryInv'
<1> DEFINE u == pty[p].uri
           record == [Emptied(pty[p]) EXCEPT !.proc = "exited", !.listening = FALSE]
           output == WithOutput(store[u], pty[p].pending)
           state == [output EXCEPT !.status = "exited"]
<1>1. pty[p] \in Records /\ pty[p].pending \in Seq(Chunks) /\ Attached(p)
  BY DEF EntryInv, TypeOK, OnExit, Records
<1>2. record \in Records /\ record.pending = <<>> /\ record.uri = u /\ record.proc = "exited" /\ ~record.listening
  <2>1. Emptied(pty[p]) \in Records /\ Emptied(pty[p]).pending = <<>> /\ Emptied(pty[p]).uri = u
    BY <1>1, EmptiedRecord
  <2> QED
    BY <2>1 DEF Records, ProcStates
<1>3. u \in Uris /\ entries[u] = p /\ entries[u] # None
  BY <1>1, AttachedFacts
<1>4. store[u] \in States
  BY <1>3, EntryFacts
<1>5. state \in States /\ state.status = "exited"
  <2>1. output \in States
    BY <1>1, <1>4, OutputKeepsState
  <2> HIDE DEF output
  <2> QED
    BY <2>1 DEF States
<1>6. sent' \in [Uris -> Seq(Notices)]
  <2>1. Data(p, pty[p].pending) \in Seq(Notices) /\ Exited(p) \in Seq(Notices)
    BY <1>1, NoticeTypes
  <2> QED
    BY <2>1, <1>3 DEF OnExit, EntryInv, TypeOK
<1>7. Changes(p, record, state)
  BY <1>6 DEF Changes, OnExit
<1> HIDE DEF record, state
<1> QED
  BY <1>1, <1>2, <1>5, <1>7, ChangesEntry

LEMMA DiesEntry ==
  ASSUME EntryInv, NEW p \in Ptys, Dies(p)
  PROVE  EntryInv'
<1>1. /\ pty[p].proc \in Fates /\ pty[p].proc # "running" /\ pty[p].pending = <<>>
      /\ pty' = [pty EXCEPT ![p] = [@ EXCEPT !.proc = "exited"]]
      /\ UNCHANGED <<creating, entries, store, catalogue, closed, sent>>
  BY DEF Dies, Fates, EntryInv, IdleInv
<1>2. \A u \in Uris : entries[u] # p
  <2> SUFFICES ASSUME NEW u \in Uris, entries[u] = p PROVE FALSE
    OBVIOUS
  <2>1. pty[p].proc = store[u].status /\ store[u] \in States
    BY EntryFacts, SizesAssumption
  <2> QED
    BY <1>1, <2>1 DEF States, Fates
<1>3. pty[p] \in Records
  BY DEF EntryInv, TypeOK
<1>4. [pty[p] EXCEPT !.proc = "exited"] \in Records
  BY <1>3 DEF Records, ProcStates
<1>5. TypeOK'
  BY <1>1, <1>4 DEF EntryInv, TypeOK
<1>6. pty'[p].proc = "exited" /\ pty'[p].uri = pty[p].uri /\ pty'[p].listening = pty[p].listening
      /\ pty'[p].pending = <<>>
  BY <1>1, <1>3 DEF EntryInv, TypeOK, Records
<1>7. \A q \in Ptys : q # p => pty'[q] = pty[q]
  BY <1>1 DEF EntryInv, TypeOK
<1>8. NoStrayTerminal'
  BY <1>1, <1>2, <1>6, <1>7, SizesAssumption DEF EntryInv, TypeOK, NoStrayTerminal, Attached
<1>9. IdleInv'
  BY <1>6, <1>7 DEF EntryInv, IdleInv
<1> QED
  BY <1>5, <1>8, <1>9 DEF EntryInv

LEMMA DisposeEntry ==
  ASSUME EntryInv, NEW u \in Uris, Dispose(u)
  PROVE  EntryInv'
<1>0. PICK fate \in Fates :
      pty' = [pty EXCEPT ![entries[u]] = Removed(@, store[u].status = "running", fate)]
  BY DEF Dispose
<1> DEFINE p == entries[u]
           running == store[u].status = "running"
           record == Removed(pty[p], running, fate)
<1>1. /\ entries[u] # None
      /\ pty' = [pty EXCEPT ![p] = record]
      /\ sent' = [sent EXCEPT ![u] = @ \o Farewell(p, running)]
      /\ entries' = [entries EXCEPT ![u] = None]
      /\ store' = [store EXCEPT ![u] = None]
      /\ catalogue' = CatalogueOf(entries', store')
      /\ UNCHANGED <<creating, closed>>
  BY <1>0 DEF Dispose
<1>2. /\ p \in Ptys /\ store[u] \in States /\ pty[p] \in Records /\ pty[p].uri = u
      /\ pty[p].proc = store[u].status
  BY <1>1, EntryFacts
<1>3. /\ record \in Records /\ record.pending = <<>> /\ ~record.listening
      /\ record.proc = IF running THEN fate ELSE pty[p].proc
  BY <1>2, RemovedRecord
<1>4. record.proc \notin {"running", "none"}
  BY <1>2, <1>3 DEF States, Fates
<1> HIDE DEF record
<1>5. TypeOK'
  <2>1. sent' \in [Uris -> Seq(Notices)]
    <3>1. pty[p].pending \in Seq(Chunks)
      BY <1>2 DEF Records
    <3>2. Data(p, pty[p].pending) \in Seq(Notices) /\ Exited(p) \in Seq(Notices)
      BY <1>2, <3>1, NoticeTypes
    <3>3. Farewell(p, running) \in Seq(Notices)
      BY <3>2 DEF Farewell
    <3>4. sent[u] \o Farewell(p, running) \in Seq(Notices)
      BY <3>3 DEF EntryInv, TypeOK
    <3> QED
      BY <3>4, <1>1 DEF EntryInv, TypeOK
  <2>2. store' \in [Uris -> States \union {None}]
    BY <1>1 DEF EntryInv, TypeOK
  <2>3. catalogue' \subseteq [resource : Uris, title : Titles, status : {"running", "exited"}]
    <3>1. CatalogueOf(entries', store') \subseteq [resource : Uris, title : Titles, status : {"running", "exited"}]
      BY <2>2, CatalogueType
    <3> QED
      BY <3>1, <1>1
  <2> QED
    BY <1>1, <1>2, <1>3, <2>1, <2>2, <2>3 DEF EntryInv, TypeOK
<1>6. \A q \in Ptys : q # p => pty'[q] = pty[q]
  BY <1>1 DEF EntryInv, TypeOK
<1>7. pty'[p] = record
  BY <1>1, <1>2 DEF EntryInv, TypeOK
<1>8. NoStrayTerminal'
  <2>1. ASSUME NEW v \in Uris
        PROVE  /\ (entries'[v] = None) <=> (store'[v] = None)
               /\ entries'[v] # None =>
                    /\ pty'[entries'[v]].uri = v
                    /\ pty'[entries'[v]].proc = store'[v].status
                    /\ pty'[entries'[v]].listening <=> store'[v].status = "running"
    <3>1. CASE v = u
      BY <3>1, <1>1 DEF EntryInv, TypeOK
    <3>2. CASE v # u
      <4>1. entries'[v] = entries[v] /\ store'[v] = store[v]
        BY <3>2, <1>1 DEF EntryInv, TypeOK
      <4>2. entries[v] # None => entries[v] \in Ptys /\ entries[v] # p
        BY <3>2, <1>1, EntryFacts
      <4> QED
        BY <4>1, <4>2, <1>6, <2>1 DEF EntryInv, NoStrayTerminal
    <3> QED
      BY <3>1, <3>2
  <2>2. ASSUME NEW q \in Ptys, pty'[q].proc = "running" \/ pty'[q].listening
        PROVE  Attached(q)'
    <3>1. q # p
      BY <2>2, <1>3, <1>4, <1>7
    <3>2. Attached(q)
      BY <3>1, <2>2, <1>6 DEF EntryInv, NoStrayTerminal
    <3>3. pty[q].uri # u
      BY <3>1, <3>2 DEF Attached
    <3> QED
      BY <3>1, <3>2, <3>3, <1>1, <1>6 DEF EntryInv, TypeOK, Attached
  <2> QED
    BY <2>1, <2>2, <1>1 DEF NoStrayTerminal
<1>9. IdleInv'
  BY <1>3, <1>4, <1>6, <1>7 DEF EntryInv, IdleInv
<1> QED
  BY <1>5, <1>8, <1>9 DEF EntryInv

LEMMA ShutdownEntry ==
  ASSUME EntryInv, Shutdown
  PROVE  EntryInv'
<1>0. PICK fate \in [Ptys -> Fates] :
      pty' = [p \in Ptys |->
                IF Attached(p) THEN Removed(pty[p], store[pty[p].uri].status = "running", fate[p]) ELSE pty[p]]
  BY DEF Shutdown
<1>1. /\ closed' = TRUE
      /\ pty' = [p \in Ptys |->
                   IF Attached(p) THEN Removed(pty[p], store[pty[p].uri].status = "running", fate[p]) ELSE pty[p]]
      /\ entries' = [u \in Uris |-> None]
      /\ store' = [u \in Uris |-> IF entries[u] # None THEN None ELSE store[u]]
      /\ catalogue' = CatalogueOf(entries', store')
      /\ UNCHANGED <<creating, sent>>
  BY <1>0 DEF Shutdown
<1>2. \A p \in Ptys : /\ pty'[p] \in Records
                      /\ ~pty'[p].listening /\ pty'[p].proc # "running"
                      /\ pty'[p].proc = "none" => pty'[p] = pty[p] /\ pty[p].proc = "none"
                      /\ pty'[p].pending = <<>>
  <2> SUFFICES ASSUME NEW p \in Ptys
               PROVE  /\ pty'[p] \in Records
                      /\ ~pty'[p].listening /\ pty'[p].proc # "running"
                      /\ pty'[p].proc = "none" => pty'[p] = pty[p] /\ pty[p].proc = "none"
                      /\ pty'[p].pending = <<>>
    OBVIOUS
  <2>1. CASE Attached(p)
    <3> DEFINE running == store[pty[p].uri].status = "running"
    <3>1. /\ pty[p] \in Records /\ pty[p].proc = store[pty[p].uri].status
          /\ store[pty[p].uri] \in States
      <4>1. pty[p].uri \in Uris /\ entries[pty[p].uri] = p /\ entries[pty[p].uri] # None
        BY <2>1, AttachedFacts
      <4> QED
        BY <4>1, EntryFacts
    <3>2. /\ Removed(pty[p], running, fate[p]) \in Records /\ Removed(pty[p], running, fate[p]).pending = <<>>
          /\ ~Removed(pty[p], running, fate[p]).listening
          /\ Removed(pty[p], running, fate[p]).proc = IF running THEN fate[p] ELSE pty[p].proc
      <4>1. fate[p] \in Fates /\ running \in BOOLEAN
        OBVIOUS
      <4> HIDE DEF running
      <4> QED
        BY <4>1, <3>1, RemovedRecord
    <3>3. pty'[p] = Removed(pty[p], running, fate[p])
      BY <2>1, <1>1
    <3>4. fate[p] \in {"killed", "spared"}
      BY DEF Fates
    <3> QED
      BY <3>1, <3>2, <3>3, <3>4 DEF States
  <2>2. CASE ~Attached(p)
    BY <2>2, <1>1 DEF EntryInv, TypeOK, NoStrayTerminal, IdleInv
  <2> QED
    BY <2>1, <2>2
<1>3. \A u \in Uris : store'[u] = None
  BY <1>1 DEF EntryInv, NoStrayTerminal
<1>4. CatalogueOf(entries', store') = {}
  BY <1>3 DEF CatalogueOf
<1>5. TypeOK'
  <2>1. pty' \in [Ptys -> Records]
    BY <1>1, <1>2
  <2>2. store' \in [Uris -> States \union {None}]
    BY <1>1, <1>3
  <2> QED
    BY <1>1, <1>4, <2>1, <2>2 DEF EntryInv, TypeOK
<1>6. NoStrayTerminal'
  BY <1>1, <1>2, <1>3 DEF NoStrayTerminal
<1>7. IdleInv'
  BY <1>2 DEF EntryInv, IdleInv
<1> QED
  BY <1>5, <1>6, <1>7 DEF EntryInv

LEMMA RetitleEntry ==
  ASSUME EntryInv, NEW u \in Uris, NEW c \in Clients, NEW title \in Titles, Retitle(u, c, title)
  PROVE  EntryInv'
<1> DEFINE p == entries[u]
           state == [store[u] EXCEPT !.title = title]
<1>1. entries[u] # None
  BY DEF Retitle, Valid, EntryInv, NoStrayTerminal
<1>2. /\ p \in Ptys /\ store[u] \in States /\ pty[p] \in Records /\ pty[p].uri = u
      /\ pty[p].proc = store[u].status /\ (pty[p].listening <=> store[u].status = "running")
      /\ Attached(p)
  BY <1>1, EntryFacts
<1>3. state \in States /\ state.status = store[u].status
  BY <1>2 DEF States
<1>4. catalogue' = CatalogueOf(entries', store') \/ (catalogue' = catalogue /\ closed)
  BY <1>1 DEF Retitle, Hooked
<1>5. Changes(p, pty[p], state)
  <2>1. pty' = [pty EXCEPT ![p] = pty[p]]
    BY <1>2 DEF Retitle, EntryInv, TypeOK
  <2>2. store' = [store EXCEPT ![u] = state]
    BY DEF Retitle
  <2> QED
    BY <1>2, <1>4, <2>1, <2>2 DEF Changes, Retitle, EntryInv, TypeOK
<1> HIDE DEF state
<1> QED
  BY <1>2, <1>3, <1>5, ChangesEntry DEF EntryInv, IdleInv

LEMMA ClearEntry ==
  ASSUME EntryInv, NEW u \in Uris, NEW c \in Clients, Clear(u, c),
         pty[entries[u]].read - Len(pty[entries[u]].pending) \in 0..MaxChunks
  PROVE  EntryInv'
<1> DEFINE p == entries[u]
           state == [store[u] EXCEPT !.content = <<>>]
           record == IF Hooked(u) THEN Cleared(pty[p])
                     ELSE [pty[p] EXCEPT !.cleared = pty[p].read - Len(pty[p].pending)]
<1>1. entries[u] # None
  BY DEF Clear, Valid, EntryInv, NoStrayTerminal
<1>2. /\ p \in Ptys /\ store[u] \in States /\ pty[p] \in Records /\ pty[p].uri = u
      /\ pty[p].proc = store[u].status /\ (pty[p].listening <=> store[u].status = "running")
      /\ Attached(p)
  BY <1>1, EntryFacts
<1>3. state \in States /\ state.status = store[u].status /\ state.title = store[u].title
  <2>1. <<>> \in Seq(Chunks)
    OBVIOUS
  <2> QED
    BY <1>2, <2>1 DEF States
<1>4. /\ record \in Records /\ record.uri = u /\ record.proc = pty[p].proc
      /\ record.listening = pty[p].listening
      /\ record.pending = pty[p].pending \/ record.pending = <<>>
  <2>1. CASE Hooked(u)
    <3>1. /\ Emptied(pty[p]) \in Records /\ Emptied(pty[p]).pending = <<>> /\ Emptied(pty[p]).uri = u
          /\ Emptied(pty[p]).proc = pty[p].proc /\ Emptied(pty[p]).listening = pty[p].listening
      BY <1>2, EmptiedRecord
    <3> QED
      BY <2>1, <3>1, <1>2 DEF Cleared, Records
  <2>2. CASE ~Hooked(u)
    BY <2>2, <1>2 DEF Records
  <2> QED
    BY <2>1, <2>2
<1>5. Changes(p, record, state)
  BY <1>2, <1>3 DEF Changes, Clear, EntryInv, TypeOK
<1> HIDE DEF state, record
<1> QED
  BY <1>2, <1>3, <1>4, <1>5, ChangesEntry DEF EntryInv, IdleInv

-----------------------------------------------------------------------------
(* Output. A batch is the end of what its process wrote, and the screen is  *)
(* what was written before the batch and since the last clear, as far as it *)
(* is retained.                                                             *)
Batch(r) ==
  /\ Len(r.pending) <= r.read
  /\ r.cleared <= r.read - Len(r.pending)
  /\ \A k \in 1..Len(r.pending) : r.pending[k] = r.read - Len(r.pending) + k

Out(r) == r.read - Len(r.pending)

Shows(r, content) ==
  /\ Len(content) = IF Out(r) - r.cleared <= Retained THEN Out(r) - r.cleared ELSE Retained
  /\ \A k \in 1..Len(content) : content[k] = Out(r) - Len(content) + k

ScreenInv ==
  /\ \A p \in Ptys : Batch(pty[p])
  /\ \A u \in Uris : entries[u] # None => Shows(pty[entries[u]], store[u].content)

LEMMA RecordNumbers ==
  ASSUME NEW r \in Records
  PROVE  /\ r.read \in Nat /\ r.cleared \in Nat /\ Len(r.pending) \in Nat
         /\ r.read <= MaxChunks /\ r.pending \in Seq(Chunks)
  BY SizesAssumption DEF Records

LEMMA EmptiedBatch ==
  ASSUME NEW r \in Records, Batch(r)
  PROVE  Batch(Emptied(r)) /\ Out(Emptied(r)) = r.read
<1>1. Emptied(r).pending = <<>> /\ Emptied(r).read = r.read /\ Emptied(r).cleared = r.cleared
  BY EmptiedRecord
<1> QED
  BY <1>1, RecordNumbers DEF Batch, Out

LEMMA FlushShows ==
  ASSUME NEW r \in Records, Batch(r), NEW content \in Seq(Chunks), Shows(r, content)
  PROVE  Shows(Emptied(r), Trim(content \o r.pending))
<1> DEFINE all == content \o r.pending
           kept == Trim(all)
<1>1. /\ Emptied(r).read = r.read /\ Emptied(r).cleared = r.cleared /\ Out(Emptied(r)) = r.read
  BY EmptiedBatch, EmptiedRecord
<1>2. /\ r.read \in Nat /\ r.cleared \in Nat /\ Len(r.pending) \in Nat /\ r.pending \in Seq(Chunks)
      /\ Len(content) \in Nat /\ Retained \in Nat
  BY RecordNumbers, SizesAssumption
<1>3. /\ all \in Seq(Chunks) /\ Len(all) = Len(content) + Len(r.pending)
      /\ \A k \in 1..Len(all) : all[k] = IF k <= Len(content) THEN content[k] ELSE r.pending[k - Len(content)]
  BY <1>2
<1>4. \A k \in 1..Len(all) : all[k] = r.read - Len(all) + k
  <2> SUFFICES ASSUME NEW k \in 1..Len(all) PROVE all[k] = r.read - Len(all) + k
    OBVIOUS
  <2>1. CASE k <= Len(content)
    BY <2>1, <1>2, <1>3 DEF Shows, Out
  <2>2. CASE ~(k <= Len(content))
    <3>1. k - Len(content) \in 1..Len(r.pending)
      BY <2>2, <1>2, <1>3
    <3>2. r.pending[k - Len(content)] = r.read - Len(r.pending) + (k - Len(content))
      BY <3>1 DEF Batch
    <3>3. all[k] = r.pending[k - Len(content)]
      BY <2>2, <1>3
    <3> QED
      BY <3>2, <3>3, <1>2, <1>3
  <2> QED
    BY <2>1, <2>2
<1>5. /\ kept \in Seq(Chunks)
      /\ Len(kept) = IF Len(all) <= Retained THEN Len(all) ELSE Retained
      /\ \A k \in 1..Len(kept) : kept[k] = all[Len(all) - Len(kept) + k]
  BY <1>3, TrimKeepsEnd
<1> HIDE DEF all, kept
<1>6. Len(all) \in Nat /\ Len(kept) \in Nat /\ Len(kept) <= Len(all)
  BY <1>2, <1>3, <1>5
<1>7. Len(kept) = IF r.read - r.cleared <= Retained THEN r.read - r.cleared ELSE Retained
  <2>1. Len(content) = IF Out(r) - r.cleared <= Retained THEN Out(r) - r.cleared ELSE Retained
    BY DEF Shows
  <2>2. Out(r) = r.read - Len(r.pending)
    BY DEF Out
  <2>3. r.cleared <= r.read - Len(r.pending)
    BY DEF Batch
  <2>4. CASE Out(r) - r.cleared <= Retained
    BY <1>2, <1>3, <1>5, <2>1, <2>2, <2>3, <2>4
  <2>5. CASE ~(Out(r) - r.cleared <= Retained)
    <3>1. Len(all) = Retained + Len(r.pending) /\ ~(r.read - r.cleared <= Retained)
      BY <1>2, <1>3, <2>1, <2>2, <2>3, <2>5
    <3> QED BY <1>2, <1>5, <3>1
  <2> QED BY <2>4, <2>5
<1>8. \A k \in 1..Len(kept) : kept[k] = r.read - Len(kept) + k
  <2> SUFFICES ASSUME NEW k \in 1..Len(kept) PROVE kept[k] = r.read - Len(kept) + k
    OBVIOUS
  <2>1. Len(all) - Len(kept) + k \in 1..Len(all)
    BY <1>6
  <2>2. kept[k] = r.read - Len(all) + (Len(all) - Len(kept) + k)
    BY <2>1, <1>4, <1>5
  <2> QED
    BY <2>2, <1>2, <1>6
<1> QED
  BY <1>1, <1>7, <1>8 DEF Shows, kept, all

LEMMA GrownBatch ==
  ASSUME NEW r \in Records, r.read < MaxChunks, Batch(r)
  PROVE  /\ Batch(Grown(r)) /\ Out(Grown(r)) = Out(r)
         /\ \A content \in Seq(Chunks) : Shows(r, content) => Shows(Grown(r), content)
<1>1. /\ Grown(r).pending = Append(r.pending, r.read + 1) /\ Grown(r).read = r.read + 1
      /\ Grown(r).cleared = r.cleared
  BY GrownRecord
<1>2. /\ r.read \in Nat /\ r.cleared \in Nat /\ Len(r.pending) \in Nat /\ r.pending \in Seq(Chunks)
      /\ r.read + 1 \in Chunks
  BY RecordNumbers, SizesAssumption DEF Chunks
<1>3. /\ Len(Grown(r).pending) = Len(r.pending) + 1
      /\ \A k \in 1..Len(r.pending) : Grown(r).pending[k] = r.pending[k]
      /\ Grown(r).pending[Len(r.pending) + 1] = r.read + 1
  BY <1>1, <1>2
<1>4. Out(Grown(r)) = Out(r)
  BY <1>1, <1>2, <1>3 DEF Out
<1>5. Batch(Grown(r))
  BY <1>1, <1>2, <1>3 DEF Batch
<1> QED
  BY <1>1, <1>4, <1>5 DEF Shows

(* Screen and batch together are what ScreenComplete says.                  *)
LEMMA ScreenIsComplete == EntryInv /\ ScreenInv => ScreenComplete
<1> SUFFICES ASSUME EntryInv, ScreenInv, NEW u \in Uris, entries[u] # None
             PROVE  LET p       == pty[entries[u]]
                        content == store[u].content
                        all     == content \o p.pending
                    IN  /\ Contiguous(all)
                        /\ all # <<>> => all[Len(all)] = p.read /\ all[1] > p.cleared
                        /\ Len(all) >= (IF p.read - p.cleared <= Retained THEN p.read - p.cleared ELSE Retained)
                        /\ Len(content) <= Retained
  BY DEF ScreenComplete
<1> DEFINE r == pty[entries[u]]
           content == store[u].content
           all == content \o r.pending
<1>1. r \in Records /\ content \in Seq(Chunks) /\ Batch(r) /\ Shows(r, content)
  BY EntryFacts DEF ScreenInv, States
<1>2. /\ r.read \in Nat /\ r.cleared \in Nat /\ Len(r.pending) \in Nat /\ r.pending \in Seq(Chunks)
      /\ Len(content) \in Nat /\ Retained \in Nat
  BY <1>1, RecordNumbers, SizesAssumption
<1> HIDE DEF r, content
<1>3. /\ all \in Seq(Chunks) /\ Len(all) = Len(content) + Len(r.pending)
      /\ \A k \in 1..Len(all) : all[k] = IF k <= Len(content) THEN content[k] ELSE r.pending[k - Len(content)]
  BY <1>1, <1>2
<1>4. \A k \in 1..Len(all) : all[k] = r.read - Len(all) + k
  <2> SUFFICES ASSUME NEW k \in 1..Len(all) PROVE all[k] = r.read - Len(all) + k
    OBVIOUS
  <2>1. CASE k <= Len(content)
    BY <2>1, <1>1, <1>2, <1>3 DEF Shows, Out
  <2>2. CASE ~(k <= Len(content))
    <3>1. k - Len(content) \in 1..Len(r.pending)
      BY <2>2, <1>2, <1>3
    <3>2. r.pending[k - Len(content)] = r.read - Len(r.pending) + (k - Len(content))
      BY <3>1, <1>1 DEF Batch
    <3>3. all[k] = r.pending[k - Len(content)]
      BY <2>2, <1>3
    <3> QED
      BY <3>2, <3>3, <1>2, <1>3
  <2> QED
    BY <2>1, <2>2
<1> HIDE DEF all
<1>5. Len(all) \in Nat /\ Len(all) <= r.read - r.cleared
  BY <1>1, <1>2, <1>3 DEF Batch, Shows, Out
<1>6. Contiguous(all)
  <2> SUFFICES ASSUME NEW i \in 1..(Len(all) - 1) PROVE all[i + 1] = all[i] + 1
    BY DEF Contiguous
  <2>1. i \in 1..Len(all) /\ i + 1 \in 1..Len(all)
    BY <1>5
  <2>2. all[i] = r.read - Len(all) + i /\ all[i + 1] = r.read - Len(all) + (i + 1)
    BY <2>1, <1>4
  <2>3. \A a, n, j \in Int : a - n + (j + 1) = (a - n + j) + 1
    OBVIOUS
  <2>4. r.read \in Int /\ Len(all) \in Int /\ i \in Int
    BY <1>2, <1>5
  <2> QED
    BY <2>2, <2>3, <2>4
<1>7. all # <<>> => all[Len(all)] = r.read /\ all[1] > r.cleared
  <2> SUFFICES ASSUME all # <<>> PROVE all[Len(all)] = r.read /\ all[1] > r.cleared
    OBVIOUS
  <2>1. Len(all) \in 1..Len(all) /\ 1 \in 1..Len(all)
    BY <1>3, <1>5
  <2> QED
    BY <2>1, <1>2, <1>4, <1>5
<1>8. Len(all) >= (IF r.read - r.cleared <= Retained THEN r.read - r.cleared ELSE Retained)
  BY <1>1, <1>2, <1>3 DEF Batch, Shows, Out
<1>9. Len(content) <= Retained
  BY <1>1, <1>2 DEF Shows, Out, Batch
<1> QED
  BY <1>6, <1>7, <1>8, <1>9 DEF r, content, all

LEMMA InitScreen == Init => ScreenInv
<1> SUFFICES ASSUME Init, NEW p \in Ptys PROVE Batch(pty[p])
  BY DEF Init, ScreenInv
<1> QED
  BY DEF Init, Unborn, Batch

(* A change of one entry keeps every other screen.                          *)
LEMMA ChangesScreen ==
  ASSUME EntryInv, ScreenInv, NEW p \in Ptys, Attached(p), NEW record, NEW state,
         Batch(record), Shows(record, state.content), Changes(p, record, state)
  PROVE  ScreenInv'
<1> DEFINE u == pty[p].uri
<1>1. u \in Uris /\ entries[u] = p /\ entries[u] # None /\ \A v \in Uris : entries[v] = p => v = u
  BY AttachedFacts
<1>2. pty'[p] = record /\ store'[u] = state /\ entries' = entries
  BY <1>1 DEF Changes, EntryInv, TypeOK
<1>3. \A q \in Ptys : q # p => pty'[q] = pty[q]
  BY DEF Changes, EntryInv, TypeOK
<1>4. \A v \in Uris : v # u => store'[v] = store[v]
  BY DEF Changes, EntryInv, TypeOK
<1>5. \A q \in Ptys : Batch(pty'[q])
  BY <1>2, <1>3 DEF ScreenInv
<1>6. ASSUME NEW v \in Uris, entries[v] # None PROVE Shows(pty'[entries[v]], store'[v].content)
  <2>1. CASE v = u
    BY <2>1, <1>1, <1>2
  <2>2. CASE v # u
    <3>1. entries[v] \in Ptys /\ entries[v] # p
      BY <2>2, <1>1, <1>6, EntryFacts
    <3> QED
      BY <2>2, <3>1, <1>3, <1>4, <1>6 DEF ScreenInv
  <2> QED
    BY <2>1, <2>2
<1> QED
  BY <1>2, <1>5, <1>6 DEF ScreenInv

(* Entries, records and screens may go, as long as what stays is unchanged. *)
LEMMA KeptScreen ==
  ASSUME EntryInv, ScreenInv,
         \A p \in Ptys : Batch(pty'[p]),
         \A u \in Uris : entries'[u] # None =>
           /\ entries'[u] = entries[u]
           /\ pty'[entries[u]] = pty[entries[u]]
           /\ store'[u].content = store[u].content
  PROVE  ScreenInv'
  BY DEF ScreenInv

(* A process that has written nothing has an empty screen.                  *)
LEMMA FreshShows ==
  ASSUME NEW record, record.pending = <<>>, record.read = 0, record.cleared = 0
  PROVE  Batch(record) /\ Shows(record, <<>>)
<1>1. Len(record.pending) = 0
  OBVIOUS
<1>2. Out(record) = 0 - 0
  BY <1>1 DEF Out
<1>3. Out(record) - record.cleared = 0
  BY <1>2
<1>4. Out(record) - record.cleared <= Retained
  BY <1>3, SizesAssumption
<1>5. Shows(record, <<>>)
  BY <1>3, <1>4 DEF Shows
<1>6. Batch(record)
  BY <1>1 DEF Batch
<1> QED
  BY <1>5, <1>6

LEMMA SpawnScreen ==
  ASSUME EntryInv, ScreenInv, NEW r \in Requests, NEW p \in Ptys, Spawn(r, p)
  PROVE  ScreenInv'
<1> DEFINE u == creating[r].uri
           c == creating[r].client
           born == [Unborn EXCEPT !.proc = "running", !.uri = u, !.listening = TRUE]
<1>1. u \in Uris /\ c \in Clients
  BY DEF EntryInv, TypeOK, Spawn
<1>2. /\ pty[p].proc = "none"
      /\ pty' = [pty EXCEPT ![p] = born]
      /\ store' = [store EXCEPT ![u] = NewState(c)]
      /\ entries' = [entries EXCEPT ![u] = p]
  BY DEF Spawn
<1>3. born.pending = <<>> /\ born.read = 0 /\ born.cleared = 0
  BY DEF Unborn
<1> HIDE DEF born
<1>4. Batch(born) /\ Shows(born, <<>>)
  BY <1>3, FreshShows
<1>5. \A v \in Uris : entries[v] # p
  <2> SUFFICES ASSUME NEW v \in Uris, entries[v] = p PROVE FALSE
    OBVIOUS
  <2>1. entries[v] # None
    BY SizesAssumption
  <2>2. pty[p].proc = store[v].status /\ store[v] \in States
    BY <2>1, EntryFacts
  <2> QED
    BY <2>2, <1>2 DEF States
<1>6. pty'[p] = born /\ store'[u].content = <<>> /\ entries'[u] = p
  BY <1>1, <1>2 DEF EntryInv, TypeOK, NewState
<1>7. \A q \in Ptys : q # p => pty'[q] = pty[q]
  BY <1>2 DEF EntryInv, TypeOK
<1>8. \A q \in Ptys : Batch(pty'[q])
  BY <1>4, <1>6, <1>7 DEF ScreenInv
<1>9. ASSUME NEW v \in Uris, entries'[v] # None PROVE Shows(pty'[entries'[v]], store'[v].content)
  <2>1. CASE v = u
    BY <2>1, <1>4, <1>6
  <2>2. CASE v # u
    <3>1. entries'[v] = entries[v] /\ store'[v] = store[v]
      BY <2>2, <1>2 DEF EntryInv, TypeOK
    <3>2. entries[v] \in Ptys /\ entries[v] # p
      BY <3>1, <1>5, <1>9, EntryFacts
    <3> QED
      BY <3>1, <3>2, <1>7, <1>9 DEF ScreenInv
  <2> QED
    BY <2>1, <2>2
<1> QED
  BY <1>8, <1>9 DEF ScreenInv

LEMMA FlushScreen ==
  ASSUME EntryInv, ScreenInv, NEW p \in Ptys, FlushFires(p)
  PROVE  ScreenInv'
<1> DEFINE u == pty[p].uri
           record == Emptied(pty[p])
           state == WithOutput(store[u], pty[p].pending)
<1>1. pty[p] \in Records /\ pty[p].pending \in Seq(Chunks) /\ Batch(pty[p])
  BY DEF EntryInv, TypeOK, Records, ScreenInv
<1>2. Batch(record)
  BY <1>1, EmptiedBatch
<1>3. CASE Attached(p)
  <2>1. u \in Uris /\ entries[u] = p /\ entries[u] # None
    BY <1>3, AttachedFacts
  <2>2. store[u] \in States /\ Shows(pty[p], store[u].content)
    BY <2>1, EntryFacts DEF ScreenInv
  <2>3. /\ state.content = Trim(store[u].content \o pty[p].pending)
        /\ state.status = store[u].status /\ state.title = store[u].title
    BY <1>1, <2>2, OutputKeepsState
  <2>4. Shows(record, state.content)
    BY <1>1, <2>2, <2>3, FlushShows DEF States
  <2>5. sent' \in [Uris -> Seq(Notices)]
    BY FlushEntry DEF EntryInv, TypeOK
  <2>6. Changes(p, record, state)
    BY <1>3, <2>3, <2>5 DEF Changes, FlushFires, Flush
  <2> HIDE DEF record, state
  <2> QED
    BY <1>2, <1>3, <2>4, <2>6, ChangesScreen
<1>4. CASE ~Attached(p)
  <2>1. pty' = [pty EXCEPT ![p] = record] /\ UNCHANGED <<entries, store>>
    BY <1>4 DEF FlushFires, Flush
  <2>2. \A v \in Uris : entries[v] # p
    BY <1>4, EntryFacts, SizesAssumption
  <2> HIDE DEF record
  <2>3. \A q \in Ptys : Batch(pty'[q])
    BY <1>2, <2>1 DEF ScreenInv, EntryInv, TypeOK
  <2>4. \A v \in Uris : pty'[entries[v]] = pty[entries[v]]
    BY <2>1, <2>2 DEF EntryInv, TypeOK
  <2> QED
    BY <2>1, <2>3, <2>4 DEF ScreenInv
<1> QED
  BY <1>3, <1>4

LEMMA OnDataScreen ==
  ASSUME EntryInv, ScreenInv, NEW p \in Ptys, OnData(p)
  PROVE  ScreenInv'
<1> DEFINE u == pty[p].uri
           grown == Grown(pty[p])
           pending == grown.pending
<1>1. pty[p] \in Records /\ pty[p].read < MaxChunks /\ Attached(p) /\ Batch(pty[p])
  BY DEF EntryInv, TypeOK, OnData, ScreenInv
<1>2. u \in Uris /\ entries[u] = p /\ entries[u] # None
  BY <1>1, AttachedFacts
<1>3. store[u] \in States /\ Shows(pty[p], store[u].content) /\ store[u].content \in Seq(Chunks)
  BY <1>2, EntryFacts DEF ScreenInv, States
<1>4. grown \in Records /\ Batch(grown) /\ Shows(grown, store[u].content)
  BY <1>1, <1>3, GrownBatch, GrownRecord
<1>5. pending \in Seq(Chunks)
  BY <1>4 DEF Records
<1>6. sent' \in [Uris -> Seq(Notices)]
  BY OnDataEntry DEF EntryInv, TypeOK
<1>7. CASE Len(pending) >= Threshold
  <2> DEFINE record == Emptied(grown)
             state == WithOutput(store[u], pending)
  <2>1. Batch(record)
    BY <1>4, EmptiedBatch
  <2>2. /\ state.content = Trim(store[u].content \o pending)
        /\ state.status = store[u].status /\ state.title = store[u].title
    BY <1>3, <1>5, OutputKeepsState
  <2>3. Shows(record, state.content)
    BY <1>3, <1>4, <2>2, FlushShows
  <2>4. Changes(p, record, state)
    BY <1>6, <1>7, <2>2 DEF Changes, OnData
  <2> HIDE DEF record, state
  <2> QED
    BY <1>1, <2>1, <2>3, <2>4, ChangesScreen
<1>8. CASE ~(Len(pending) >= Threshold)
  <2>1. store' = [store EXCEPT ![u] = store[u]]
    BY <1>8, <1>2 DEF OnData, EntryInv, TypeOK
  <2>2. Changes(p, grown, store[u])
    BY <1>6, <1>8, <2>1 DEF Changes, OnData
  <2> HIDE DEF grown
  <2> QED
    BY <1>1, <1>4, <2>2, ChangesScreen
<1> QED
  BY <1>7, <1>8

LEMMA OnExitScreen ==
  ASSUME EntryInv, ScreenInv, NEW p \in Ptys, OnExit(p)
  PROVE  ScreenInv'
<1> DEFINE u == pty[p].uri
           emptied == Emptied(pty[p])
           record == [emptied EXCEPT !.proc = "exited", !.listening = FALSE]
           output == WithOutput(store[u], pty[p].pending)
           state == [output EXCEPT !.status = "exited"]
<1>1. pty[p] \in Records /\ pty[p].pending \in Seq(Chunks) /\ Attached(p) /\ Batch(pty[p])
  BY DEF EntryInv, TypeOK, OnExit, Records, ScreenInv
<1>2. u \in Uris /\ entries[u] = p /\ entries[u] # None
  BY <1>1, AttachedFacts
<1>3. store[u] \in States /\ Shows(pty[p], store[u].content)
  BY <1>2, EntryFacts DEF ScreenInv
<1>4. output \in States /\ output.content = Trim(store[u].content \o pty[p].pending)
  BY <1>1, <1>3, OutputKeepsState
<1>5. emptied \in Records /\ Batch(emptied) /\ Shows(emptied, output.content)
  BY <1>1, <1>3, <1>4, EmptiedRecord, EmptiedBatch, FlushShows DEF States
<1>6. sent' \in [Uris -> Seq(Notices)]
  BY OnExitEntry DEF EntryInv, TypeOK
<1>7. Changes(p, record, state)
  BY <1>6 DEF Changes, OnExit
<1> HIDE DEF emptied, output
<1>8. /\ record.pending = emptied.pending /\ record.read = emptied.read /\ record.cleared = emptied.cleared
      /\ state.content = output.content
  BY <1>4, <1>5 DEF Records, States
<1> HIDE DEF record, state
<1>9. Batch(record) /\ Shows(record, state.content)
  BY <1>5, <1>8 DEF Batch, Shows, Out
<1> QED
  BY <1>1, <1>7, <1>9, ChangesScreen

LEMMA DiesScreen ==
  ASSUME EntryInv, ScreenInv, NEW p \in Ptys, Dies(p)
  PROVE  ScreenInv'
<1>1. pty[p] \in Records /\ pty' = [pty EXCEPT ![p].proc = "exited"] /\ UNCHANGED <<entries, store>>
  BY DEF Dies, EntryInv, TypeOK
<1>2. \A q \in Ptys : /\ pty'[q].pending = pty[q].pending
                      /\ pty'[q].read = pty[q].read /\ pty'[q].cleared = pty[q].cleared
  BY <1>1 DEF EntryInv, TypeOK, Records
<1>3. \A q \in Ptys : Batch(pty'[q])
  BY <1>2 DEF ScreenInv, Batch
<1>4. ASSUME NEW u \in Uris, entries[u] # None PROVE Shows(pty'[entries[u]], store[u].content)
  <2>1. entries[u] \in Ptys
    BY <1>4, EntryFacts
  <2>2. Shows(pty[entries[u]], store[u].content)
    BY <1>4 DEF ScreenInv
  <2> QED
    BY <2>1, <2>2, <1>2 DEF Shows, Out
<1> QED
  BY <1>1, <1>3, <1>4 DEF ScreenInv

LEMMA RemovedBatch ==
  ASSUME NEW r \in Records, Batch(r), NEW running \in BOOLEAN, NEW fate \in Fates
  PROVE  Batch(Removed(r, running, fate))
<1>1. Emptied(r) \in Records /\ Batch(Emptied(r))
  BY EmptiedRecord, EmptiedBatch
<1>2. /\ Removed(r, running, fate).pending = Emptied(r).pending
      /\ Removed(r, running, fate).read = Emptied(r).read
      /\ Removed(r, running, fate).cleared = Emptied(r).cleared
  BY <1>1 DEF Removed, Records
<1> QED
  BY <1>1, <1>2 DEF Batch

LEMMA DisposeScreen ==
  ASSUME EntryInv, ScreenInv, NEW u \in Uris, Dispose(u)
  PROVE  ScreenInv'
<1>0. PICK fate \in Fates :
      pty' = [pty EXCEPT ![entries[u]] = Removed(@, store[u].status = "running", fate)]
  BY DEF Dispose
<1> DEFINE p == entries[u]
           record == Removed(pty[p], store[u].status = "running", fate)
<1>1. /\ entries[u] # None
      /\ pty' = [pty EXCEPT ![p] = record]
      /\ entries' = [entries EXCEPT ![u] = None]
      /\ store' = [store EXCEPT ![u] = None]
  BY <1>0 DEF Dispose
<1>2. p \in Ptys /\ pty[p] \in Records /\ Batch(pty[p])
  BY <1>1, EntryFacts DEF ScreenInv
<1>3. Batch(record)
  BY <1>2, RemovedBatch
<1> HIDE DEF record
<1>4. \A q \in Ptys : Batch(pty'[q])
  BY <1>1, <1>3 DEF ScreenInv, EntryInv, TypeOK
<1>5. ASSUME NEW v \in Uris, entries'[v] # None
      PROVE  /\ entries'[v] = entries[v]
             /\ pty'[entries[v]] = pty[entries[v]]
             /\ store'[v].content = store[v].content
  <2>1. v # u /\ entries'[v] = entries[v] /\ store'[v] = store[v]
    BY <1>1, <1>5 DEF EntryInv, TypeOK
  <2>2. entries[v] \in Ptys /\ entries[v] # p
    BY <2>1, <1>1, <1>5, EntryFacts
  <2> QED
    BY <2>1, <2>2, <1>1 DEF EntryInv, TypeOK
<1> QED
  BY <1>4, <1>5, KeptScreen

LEMMA ShutdownScreen ==
  ASSUME EntryInv, ScreenInv, Shutdown
  PROVE  ScreenInv'
<1>0. PICK fate \in [Ptys -> Fates] :
      pty' = [p \in Ptys |->
                IF Attached(p) THEN Removed(pty[p], store[pty[p].uri].status = "running", fate[p]) ELSE pty[p]]
  BY DEF Shutdown
<1>1. /\ pty' = [p \in Ptys |->
                   IF Attached(p) THEN Removed(pty[p], store[pty[p].uri].status = "running", fate[p]) ELSE pty[p]]
      /\ entries' = [u \in Uris |-> None]
  BY <1>0 DEF Shutdown
<1>2. ASSUME NEW p \in Ptys PROVE Batch(pty'[p])
  <2>1. pty[p] \in Records /\ Batch(pty[p])
    BY DEF EntryInv, TypeOK, ScreenInv
  <2>2. Batch(Removed(pty[p], store[pty[p].uri].status = "running", fate[p]))
    BY <2>1, RemovedBatch
  <2> QED
    BY <2>1, <2>2, <1>1
<1> QED
  BY <1>1, <1>2 DEF ScreenInv

LEMMA RetitleScreen ==
  ASSUME EntryInv, ScreenInv, NEW u \in Uris, NEW c \in Clients, NEW title \in Titles, Retitle(u, c, title)
  PROVE  ScreenInv'
<1>1. store' = [store EXCEPT ![u].title = title] /\ UNCHANGED <<entries, pty>> /\ store[u] # None
  BY DEF Retitle, Valid
<1>2. \A v \in Uris : entries[v] # None => store[v] \in States
  BY EntryFacts
<1>3. \A v \in Uris : entries[v] # None => store'[v].content = store[v].content
  BY <1>1, <1>2 DEF EntryInv, TypeOK, States
<1> QED
  BY <1>1, <1>3 DEF ScreenInv

LEMMA ClearScreen ==
  ASSUME EntryInv, ScreenInv, NEW u \in Uris, NEW c \in Clients, Clear(u, c)
  PROVE  EntryInv' /\ ScreenInv'
<1> DEFINE p == entries[u]
           state == [store[u] EXCEPT !.content = <<>>]
           emptied == Emptied(pty[p])
           record == IF Hooked(u) THEN [emptied EXCEPT !.cleared = pty[p].read]
                     ELSE [pty[p] EXCEPT !.cleared = pty[p].read - Len(pty[p].pending)]
<1>1. entries[u] # None
  BY DEF Clear, Valid, EntryInv, NoStrayTerminal
<1>2. /\ p \in Ptys /\ store[u] \in States /\ pty[p] \in Records /\ pty[p].uri = u
      /\ Attached(p) /\ Batch(pty[p])
  BY <1>1, EntryFacts DEF ScreenInv
<1>3. /\ pty[p].read \in Nat /\ pty[p].cleared \in Nat /\ Len(pty[p].pending) \in Nat
      /\ pty[p].read <= MaxChunks /\ Len(pty[p].pending) <= pty[p].read
  BY <1>2, RecordNumbers DEF Batch
<1>4. pty[p].read - Len(pty[p].pending) \in 0..MaxChunks
  BY <1>3, SizesAssumption
<1>5. EntryInv'
  BY <1>4, ClearEntry
<1>6. /\ emptied \in Records /\ emptied.pending = <<>> /\ emptied.read = pty[p].read
  BY <1>2, EmptiedRecord
<1> HIDE DEF emptied
<1>7. Batch(record) /\ Out(record) = record.cleared
  <2>1. CASE Hooked(u)
    <3>1. record.pending = <<>> /\ record.read = pty[p].read /\ record.cleared = pty[p].read
      BY <2>1, <1>6 DEF Records
    <3>2. Len(record.pending) = 0 /\ 1..Len(record.pending) = {}
      BY <3>1
    <3> HIDE DEF record
    <3> QED
      BY <3>1, <3>2, <1>3 DEF Batch, Out
  <2>2. CASE ~Hooked(u)
    <3>1. /\ record.pending = pty[p].pending /\ record.read = pty[p].read
          /\ record.cleared = pty[p].read - Len(pty[p].pending)
      BY <2>2, <1>2 DEF Records
    <3> HIDE DEF record
    <3> QED
      BY <3>1, <1>2, <1>3 DEF Batch, Out
  <2> QED
    BY <2>1, <2>2
<1>8. state.content = <<>> /\ state.status = store[u].status /\ state.title = store[u].title
  BY <1>2 DEF States
<1>9. Changes(p, record, state)
  BY <1>2, <1>5, <1>8 DEF Changes, Clear, Cleared, EntryInv, TypeOK, emptied
<1> HIDE DEF record, state
<1>10. Shows(record, state.content)
  <2>1. Len(state.content) = 0 /\ 1..Len(state.content) = {}
    BY <1>8
  <2>2. record.cleared \in Nat
    BY <1>9, <1>2, <1>5, SizesAssumption DEF Changes, EntryInv, TypeOK, Records
  <2>3. Out(record) - record.cleared = 0 /\ 0 <= Retained
    BY <1>7, <2>2, SizesAssumption
  <2> QED
    BY <2>1, <2>3 DEF Shows
<1>11. ScreenInv'
  BY <1>2, <1>7, <1>9, <1>10, ChangesScreen
<1> QED
  BY <1>5, <1>11

-----------------------------------------------------------------------------
(* What a channel's subscribers are told. Runs is OutputThenExit for one    *)
(* channel; Last: once p has spoken, nobody else does.                      *)

Runs(s) ==
  \A i, j \in DOMAIN s : i < j =>
    LET a == s[i]
        b == s[j]
    IN  IF a.pty = b.pty
        THEN /\ a.what = "data"
             /\ b.what = "data" => a.chunks[Len(a.chunks)] < b.chunks[1]
             /\ \A k \in i..j : s[k].pty = a.pty
        ELSE \A k \in DOMAIN s : k > j => s[k].pty # a.pty

Last(s, p) == \A i, j \in DOMAIN s : i < j /\ s[i].pty = p => s[j].pty = p

Said(n, record, u) ==
  /\ record.uri = u
  /\ n.what = "data" => n.chunks # <<>> /\ n.chunks[Len(n.chunks)] <= Out(record)
  /\ n.what = "exited" => record.proc # "running"

SentInv ==
  \A u \in Uris :
    /\ Runs(sent[u])
    /\ \A i \in DOMAIN sent[u] : Said(sent[u][i], pty[sent[u][i].pty], u)
    /\ entries[u] # None => Last(sent[u], entries[u])

(* p may add what comes after all it has said, if it speaks last.           *)
LEMMA AppendRuns ==
  ASSUME NEW s \in Seq(Notices), NEW n \in Notices, Runs(s), Last(s, n.pty),
         \A i \in DOMAIN s : s[i].pty = n.pty =>
           /\ s[i].what = "data"
           /\ n.what = "data" => s[i].chunks[Len(s[i].chunks)] < n.chunks[1]
  PROVE  Runs(s \o <<n>>) /\ Last(s \o <<n>>, n.pty)
<1> DEFINE t == s \o <<n>>
<1>1. /\ Len(s) \in Nat /\ DOMAIN s = 1..Len(s) /\ DOMAIN t = 1..(Len(s) + 1)
      /\ \A i \in 1..Len(s) : t[i] = s[i]
      /\ t[Len(s) + 1] = n
  OBVIOUS
<1> HIDE DEF t
<1>2. Last(t, n.pty)
  BY <1>1 DEF Last
<1>3. ASSUME NEW i \in DOMAIN t, NEW j \in DOMAIN t, i < j
      PROVE  IF t[i].pty = t[j].pty
             THEN /\ t[i].what = "data"
                  /\ t[j].what = "data" => t[i].chunks[Len(t[i].chunks)] < t[j].chunks[1]
                  /\ \A k \in i..j : t[k].pty = t[i].pty
             ELSE \A k \in DOMAIN t : k > j => t[k].pty # t[i].pty
  <2>1. i \in 1..Len(s) /\ t[i] = s[i] /\ i \in DOMAIN s
    BY <1>1, <1>3
  <2>2. CASE j = Len(s) + 1
    <3>1. t[j] = n
      BY <2>2, <1>1
    <3>2. CASE t[i].pty = n.pty
      <4>1. /\ t[i].what = "data"
            /\ n.what = "data" => t[i].chunks[Len(t[i].chunks)] < n.chunks[1]
        BY <2>1, <3>2
      <4>2. ASSUME NEW k \in i..j PROVE t[k].pty = n.pty
        <5>1. k \in DOMAIN t /\ (k = i \/ i < k)
          BY <1>1, <2>1, <2>2
        <5> QED
          BY <5>1, <1>2, <3>2 DEF Last
      <4> QED
        BY <3>1, <3>2, <4>1, <4>2
    <3>3. CASE t[i].pty # n.pty
      <4>1. \A k \in DOMAIN t : ~(k > j)
        BY <1>1, <2>2
      <4> QED
        BY <3>1, <3>3, <4>1
    <3> QED
      BY <3>2, <3>3
  <2>3. CASE j # Len(s) + 1
    <3>1. j \in 1..Len(s) /\ t[j] = s[j] /\ j \in DOMAIN s
      BY <2>3, <1>1
    <3>2. CASE s[i].pty = s[j].pty
      <4>1. /\ s[i].what = "data"
            /\ s[j].what = "data" => s[i].chunks[Len(s[i].chunks)] < s[j].chunks[1]
            /\ \A k \in i..j : s[k].pty = s[i].pty
        BY <2>1, <3>1, <3>2, <1>3 DEF Runs
      <4>2. \A k \in i..j : t[k] = s[k]
        BY <2>1, <3>1, <1>1
      <4> QED
        BY <2>1, <3>1, <3>2, <4>1, <4>2
    <3>3. CASE s[i].pty # s[j].pty
      <4>1. \A k \in DOMAIN s : k > j => s[k].pty # s[i].pty
        BY <2>1, <3>1, <3>3, <1>3 DEF Runs
      <4>2. s[i].pty # n.pty
        BY <2>1, <3>1, <3>3, <1>3 DEF Last
      <4> QED
        BY <2>1, <3>1, <3>3, <4>1, <4>2, <1>1
    <3> QED
      BY <3>2, <3>3
  <2> QED
    BY <2>2, <2>3
<1>4. Runs(t)
  BY <1>3 DEF Runs
<1> QED
  BY <1>2, <1>4 DEF t

(* A record goes on: whoever was spawned keeps its URI, publishes more and  *)
(* more of its output, and does not start again.                            *)
GoesOn(before, after) ==
  before.uri # None =>
    /\ after.uri = before.uri
    /\ Out(before) <= Out(after)
    /\ before.proc # "running" => after.proc # "running"

LEMMA OutNumber ==
  ASSUME NEW record \in Records
  PROVE  Out(record) \in Int
  BY RecordNumbers DEF Out

LEMMA StillSaid ==
  ASSUME NEW n \in Notices, NEW u \in Uris, NEW before \in Records, NEW after \in Records,
         Said(n, before, u), GoesOn(before, after)
  PROVE  Said(n, after, u)
<1>1. before.uri = u /\ u # None
  BY SizesAssumption DEF Said
<1>2. after.uri = u /\ Out(before) <= Out(after) /\ (before.proc # "running" => after.proc # "running")
  BY <1>1 DEF GoesOn
<1>3. ASSUME n.what = "data" PROVE n.chunks # <<>> /\ n.chunks[Len(n.chunks)] <= Out(after)
  <2>1. n.chunks # <<>> /\ n.chunks[Len(n.chunks)] <= Out(before)
    BY <1>3 DEF Said
  <2>2. n.chunks \in Seq(Chunks) /\ Len(n.chunks) \in 1..Len(n.chunks)
    BY <2>1 DEF Notices
  <2>3. n.chunks[Len(n.chunks)] \in Int
    BY <2>2, SizesAssumption DEF Chunks
  <2> QED
    BY <2>1, <2>3, <1>2, OutNumber
<1> QED
  BY <1>2, <1>3 DEF Said

(* Nothing is announced: entries may go, and processes go on.               *)
LEMMA QuietSent ==
  ASSUME EntryInv, SentInv, pty' \in [Ptys -> Records], sent' = sent,
         \A p \in Ptys : GoesOn(pty[p], pty'[p]),
         \A u \in Uris : entries'[u] # None => entries'[u] = entries[u]
  PROVE  SentInv'
<1> SUFFICES ASSUME NEW u \in Uris
             PROVE  /\ Runs(sent[u])
                    /\ \A i \in DOMAIN sent[u] : Said(sent[u][i], pty'[sent[u][i].pty], u)
                    /\ entries'[u] # None => Last(sent[u], entries'[u])
  BY DEF SentInv
<1>1. ASSUME NEW i \in DOMAIN sent[u] PROVE Said(sent[u][i], pty'[sent[u][i].pty], u)
  <2>1. sent[u][i] \in Notices
    BY DEF EntryInv, TypeOK
  <2>2. sent[u][i].pty \in Ptys
    BY <2>1 DEF Notices
  <2>3. Said(sent[u][i], pty[sent[u][i].pty], u)
    BY DEF SentInv
  <2> QED
    BY <2>1, <2>2, <2>3, StillSaid DEF EntryInv, TypeOK
<1> QED
  BY <1>1 DEF SentInv

(* What a channel is told, for given records, when p's entry is there.      *)
Tells(s, records, u, p) ==
  /\ Runs(s) /\ Last(s, p)
  /\ \A i \in DOMAIN s : Said(s[i], records[s[i].pty], u)

(* The records go on while the channel is told nothing.                     *)
LEMMA StillTells ==
  ASSUME NEW s \in Seq(Notices), NEW u \in Uris, NEW p \in Ptys,
         NEW before \in [Ptys -> Records], NEW after \in [Ptys -> Records],
         \A q \in Ptys : GoesOn(before[q], after[q]),
         Tells(s, before, u, p)
  PROVE  Tells(s, after, u, p)
<1>1. ASSUME NEW i \in DOMAIN s PROVE Said(s[i], after[s[i].pty], u)
  <2>1. s[i] \in Notices
    OBVIOUS
  <2>2. s[i].pty \in Ptys
    BY <2>1 DEF Notices
  <2>3. Said(s[i], before[s[i].pty], u)
    BY DEF Tells
  <2> QED
    BY <2>1, <2>2, <2>3, StillSaid
<1> QED
  BY <1>1 DEF Tells

(* p announces one thing more.                                              *)
LEMMA TellsMore ==
  ASSUME NEW s \in Seq(Notices), NEW u \in Uris, NEW p \in Ptys, NEW n \in Notices, n.pty = p,
         NEW before \in [Ptys -> Records], NEW after \in [Ptys -> Records],
         \A q \in Ptys : GoesOn(before[q], after[q]),
         Tells(s, before, u, p), before[p].proc = "running",
         Said(n, after[p], u),
         n.what = "data" => n.chunks[1] > Out(before[p])
  PROVE  s \o <<n>> \in Seq(Notices) /\ Tells(s \o <<n>>, after, u, p)
<1> DEFINE t == s \o <<n>>
<1>1. \A i \in DOMAIN s : s[i] \in Notices /\ Said(s[i], before[s[i].pty], u)
  BY DEF Tells
<1>2. ASSUME NEW i \in DOMAIN s, s[i].pty = p
      PROVE  /\ s[i].what = "data"
             /\ n.what = "data" => s[i].chunks[Len(s[i].chunks)] < n.chunks[1]
  <2>1. s[i].what = "data"
    BY <1>1, <1>2 DEF Said, Notices
  <2>2. s[i].chunks # <<>> /\ s[i].chunks[Len(s[i].chunks)] <= Out(before[p])
    BY <1>1, <1>2, <2>1 DEF Said
  <2>3. s[i].chunks \in Seq(Chunks) /\ Len(s[i].chunks) \in 1..Len(s[i].chunks)
    BY <1>1, <2>2 DEF Notices
  <2>4. s[i].chunks[Len(s[i].chunks)] \in Int /\ Out(before[p]) \in Int
    BY <2>3, SizesAssumption, OutNumber DEF Chunks
  <2>5. n.what = "data" => n.chunks # <<>> /\ n.chunks \in Seq(Chunks)
    BY DEF Said, Notices
  <2>6. n.what = "data" => n.chunks[1] \in Int
    BY <2>5, SizesAssumption DEF Chunks
  <2> QED
    BY <2>1, <2>2, <2>4, <2>6
<1>3. Runs(t) /\ Last(t, p)
  BY <1>2, AppendRuns DEF Tells
<1>4. Tells(s, after, u, p)
  BY StillTells
<1>5. ASSUME NEW i \in DOMAIN t PROVE Said(t[i], after[t[i].pty], u)
  <2>1. CASE i \in DOMAIN s
    <3>1. t[i] = s[i]
      BY <2>1
    <3> QED
      BY <2>1, <3>1, <1>4 DEF Tells
  <2>2. CASE i \notin DOMAIN s
    <3>1. t[i] = n
      BY <2>2
    <3> QED
      BY <3>1
  <2> QED
    BY <2>1, <2>2
<1>6. t \in Seq(Notices)
  OBVIOUS
<1> HIDE DEF t
<1>7. Tells(t, after, u, p)
  BY <1>3, <1>5 DEF Tells
<1> QED
  BY <1>6, <1>7 DEF t

(* The batch q of p is published.                                           *)
LEMMA TellsData ==
  ASSUME NEW s \in Seq(Notices), NEW u \in Uris, NEW p \in Ptys, NEW q \in Records,
         NEW before \in [Ptys -> Records], Batch(q), q.uri = u, before[p].uri = u,
         Tells(s, before, u, p), q.proc = before[p].proc, Out(q) = Out(before[p]),
         q.pending # <<>> => q.proc = "running",
         NEW after \in [Ptys -> Records],
         after[p] = Emptied(q), \A r \in Ptys : r # p => after[r] = before[r]
  PROVE  /\ s \o Data(p, q.pending) \in Seq(Notices)
         /\ Tells(s \o Data(p, q.pending), after, u, p)
         /\ \A r \in Ptys : GoesOn(before[r], after[r])
<1> DEFINE t == s \o Data(p, q.pending)
<1>1. /\ Emptied(q) \in Records /\ Emptied(q).proc = q.proc /\ Emptied(q).uri = u
      /\ Out(Emptied(q)) = q.read
  BY EmptiedRecord, EmptiedBatch
<1>2. /\ q.read \in Nat /\ Len(q.pending) \in Nat /\ q.pending \in Seq(Chunks)
      /\ Out(q) = q.read - Len(q.pending)
  BY RecordNumbers DEF Out
<1>3. ASSUME NEW r \in Ptys PROVE GoesOn(before[r], after[r])
  <2>1. CASE r = p
    BY <2>1, <1>1, <1>2 DEF GoesOn
  <2>2. CASE r # p
    <3>1. Out(before[r]) \in Int
      BY OutNumber
    <3> QED
      BY <2>2, <3>1 DEF GoesOn
  <2> QED
    BY <2>1, <2>2
<1>4. CASE q.pending = <<>>
  <2>1. t = s
    BY <1>4 DEF Data
  <2>2. Tells(s, after, u, p)
    BY <1>3, StillTells
  <2> QED
    BY <2>1, <2>2, <1>3
<1>5. CASE q.pending # <<>>
  <2> DEFINE n == [pty |-> p, what |-> "data", chunks |-> q.pending]
  <2>1. t = s \o <<n>>
    BY <1>5 DEF Data
  <2>2. n \in Notices /\ n.pty = p /\ n.what = "data" /\ n.chunks = q.pending
    BY <1>2 DEF Notices
  <2>3. Len(q.pending) >= 1 /\ 1 \in 1..Len(q.pending) /\ Len(q.pending) \in 1..Len(q.pending)
    BY <1>2, <1>5
  <2>4. q.pending[1] > Out(q) /\ q.pending[Len(q.pending)] = q.read
    <3>1. \A k \in 1..Len(q.pending) : q.pending[k] = q.read - Len(q.pending) + k
      BY DEF Batch
    <3>2. q.pending[1] = q.read - Len(q.pending) + 1
      BY <2>3, <3>1
    <3>3. q.pending[Len(q.pending)] = q.read - Len(q.pending) + Len(q.pending)
      BY <2>3, <3>1
    <3> QED
      BY <1>2, <3>2, <3>3
  <2> HIDE DEF n, t
  <2>5. Said(n, after[p], u)
    BY <2>2, <2>4, <1>1, <1>2, <1>5 DEF Said
  <2>6. s \o <<n>> \in Seq(Notices) /\ Tells(s \o <<n>>, after, u, p)
    BY <2>2, <2>4, <2>5, <1>3, <1>5, TellsMore
  <2> QED
    BY <2>1, <2>6, <1>3 DEF t
<1> QED
  BY <1>4, <1>5

(* The end of p's process is announced.                                     *)
LEMMA TellsExit ==
  ASSUME NEW s \in Seq(Notices), NEW u \in Uris, NEW p \in Ptys,
         NEW before \in [Ptys -> Records], NEW after \in [Ptys -> Records],
         \A q \in Ptys : GoesOn(before[q], after[q]),
         Tells(s, before, u, p), before[p].proc = "running", before[p].uri = u,
         after[p].proc # "running"
  PROVE  s \o Exited(p) \in Seq(Notices) /\ Tells(s \o Exited(p), after, u, p)
<1> DEFINE n == [pty |-> p, what |-> "exited", chunks |-> <<>>]
<1>1. Exited(p) = <<n>> /\ n.pty = p /\ n.what = "exited"
  BY DEF Exited
<1>2. n \in Notices
  BY DEF Notices
<1> HIDE DEF n
<1>3. after[p].uri = u
  BY SizesAssumption DEF GoesOn
<1>4. Said(n, after[p], u)
  BY <1>1, <1>3 DEF Said
<1> QED
  BY <1>1, <1>2, <1>4, TellsMore

(* One channel is told of by its process.                                   *)
LEMMA ToldSent ==
  ASSUME EntryInv, SentInv, NEW p \in Ptys, NEW u \in Uris, NEW t, entries[u] = p,
         pty' \in [Ptys -> Records], \A q \in Ptys : GoesOn(pty[q], pty'[q]),
         sent' = [sent EXCEPT ![u] = t], Tells(t, pty', u, p),
         \A v \in Uris : entries'[v] # None => entries'[v] = entries[v]
  PROVE  SentInv'
<1> SUFFICES ASSUME NEW v \in Uris
             PROVE  /\ Runs(sent'[v])
                    /\ \A i \in DOMAIN sent'[v] : Said(sent'[v][i], pty'[sent'[v][i].pty], v)
                    /\ entries'[v] # None => Last(sent'[v], entries'[v])
  BY DEF SentInv
<1>1. CASE v = u
  <2>1. sent'[v] = t
    BY <1>1 DEF EntryInv, TypeOK
  <2>2. Runs(t) /\ Last(t, p) /\ \A i \in DOMAIN t : Said(t[i], pty'[t[i].pty], v)
    BY <1>1 DEF Tells
  <2>3. entries'[v] # None => entries'[v] = p
    BY <1>1
  <2> QED
    BY <2>1, <2>2, <2>3
<1>2. CASE v # u
  <2>1. sent'[v] = sent[v] /\ sent[v] \in Seq(Notices)
    BY <1>2 DEF EntryInv, TypeOK
  <2>2. ASSUME NEW i \in DOMAIN sent[v] PROVE Said(sent[v][i], pty'[sent[v][i].pty], v)
    <3>1. sent[v][i] \in Notices
      BY <2>1
    <3>2. sent[v][i].pty \in Ptys
      BY <3>1 DEF Notices
    <3>3. Said(sent[v][i], pty[sent[v][i].pty], v)
      BY DEF SentInv
    <3> QED
      BY <3>1, <3>2, <3>3, StillSaid DEF EntryInv, TypeOK
  <2> QED
    BY <2>1, <2>2 DEF SentInv
<1> QED
  BY <1>1, <1>2

(* What the channel of an entry has been told so far.                       *)
LEMMA EntryTells ==
  ASSUME EntryInv, SentInv, NEW u \in Uris, entries[u] # None
  PROVE  sent[u] \in Seq(Notices) /\ Tells(sent[u], pty, u, entries[u])
  BY DEF EntryInv, TypeOK, SentInv, Tells

LEMMA SameGoesOn ==
  ASSUME NEW before \in Records, NEW after \in Records, after.uri = before.uri,
         Out(before) <= Out(after), after.proc = before.proc \/ after.proc # "running"
  PROVE  GoesOn(before, after)
  BY DEF GoesOn

LEMMA StaysGoesOn ==
  ASSUME NEW record \in Records
  PROVE  GoesOn(record, record)
<1>1. Out(record) \in Int
  BY OutNumber
<1> QED
  BY <1>1 DEF GoesOn

LEMMA RemovedGoesOn ==
  ASSUME NEW record \in Records, Batch(record), NEW running \in BOOLEAN, NEW fate \in Fates, running \/ record.proc # "running"
  PROVE  GoesOn(record, Removed(record, running, fate))
<1>1. /\ Removed(record, running, fate).pending = <<>> /\ Removed(record, running, fate).read = record.read
      /\ Removed(record, running, fate).uri = record.uri
      /\ Removed(record, running, fate).proc = IF running THEN fate ELSE record.proc
  BY RemovedRecord
<1> DEFINE removed == Removed(record, running, fate)
<1> HIDE DEF removed
<1>2. Len(removed.pending) = 0
  BY <1>1 DEF removed
<1>3. Out(removed) = record.read - 0 /\ Out(record) = record.read - Len(record.pending)
  BY <1>1, <1>2 DEF Out, removed
<1>4. Out(record) <= Out(removed)
  BY <1>3, RecordNumbers
<1>5. removed.proc # "running"
  BY <1>1 DEF removed, Fates
<1> QED
  BY <1>1, <1>4, <1>5 DEF GoesOn, removed

LEMMA DiesSent ==
  ASSUME EntryInv, SentInv, NEW p \in Ptys, Dies(p)
  PROVE  SentInv'
<1>1. /\ pty[p] \in Records /\ pty' = [pty EXCEPT ![p].proc = "exited"]
      /\ UNCHANGED <<entries, sent>>
  BY DEF Dies, EntryInv, TypeOK
<1>2. pty' \in [Ptys -> Records]
  BY DiesEntry DEF EntryInv, TypeOK
<1>3. ASSUME NEW q \in Ptys PROVE GoesOn(pty[q], pty'[q])
  <2>1. /\ pty'[q].uri = pty[q].uri /\ pty'[q].read = pty[q].read /\ pty'[q].pending = pty[q].pending
        /\ pty'[q].proc = pty[q].proc \/ pty'[q].proc = "exited"
    BY <1>1 DEF EntryInv, TypeOK, Records
  <2>2. Out(pty'[q]) = Out(pty[q]) /\ Out(pty[q]) \in Int
    BY <2>1, OutNumber DEF Out, EntryInv, TypeOK
  <2> QED
    BY <2>1, <2>2 DEF GoesOn
<1> QED
  BY <1>1, <1>2, <1>3, QuietSent

LEMMA ShutdownSent ==
  ASSUME EntryInv, ScreenInv, SentInv, Shutdown
  PROVE  SentInv'
<1>0. PICK fate \in [Ptys -> Fates] :
      pty' = [p \in Ptys |->
                IF Attached(p) THEN Removed(pty[p], store[pty[p].uri].status = "running", fate[p]) ELSE pty[p]]
  BY DEF Shutdown
<1>1. /\ entries' = [u \in Uris |-> None] /\ sent' = sent
      /\ pty' = [p \in Ptys |->
                   IF Attached(p) THEN Removed(pty[p], store[pty[p].uri].status = "running", fate[p]) ELSE pty[p]]
  BY <1>0 DEF Shutdown
<1>2. pty' \in [Ptys -> Records]
  BY ShutdownEntry DEF EntryInv, TypeOK
<1>3. ASSUME NEW p \in Ptys PROVE GoesOn(pty[p], pty'[p])
  <2>1. pty[p] \in Records /\ Batch(pty[p])
    BY DEF EntryInv, TypeOK, ScreenInv
  <2>2. CASE Attached(p)
    <3> DEFINE running == store[pty[p].uri].status = "running"
    <3>1. pty'[p] = Removed(pty[p], running, fate[p])
      BY <1>1, <2>2
    <3>2. running \/ pty[p].proc # "running"
      BY <2>2, AttachedFacts, EntryFacts
    <3> HIDE DEF running
    <3>3. running \in BOOLEAN
      BY DEF running
    <3> QED
      BY <2>1, <3>1, <3>2, <3>3, RemovedGoesOn
  <2>3. CASE ~Attached(p)
    BY <1>1, <2>1, <2>3, StaysGoesOn
  <2> QED
    BY <2>2, <2>3
<1>4. \A u \in Uris : entries'[u] = None
  BY <1>1
<1> QED
  BY <1>1, <1>2, <1>3, <1>4, QuietSent

(* A process that is spawned has told nobody anything.                      *)
LEMMA SpawnSent ==
  ASSUME EntryInv, SentInv, NEW r \in Requests, NEW p \in Ptys, Spawn(r, p)
  PROVE  SentInv'
<1> DEFINE u == creating[r].uri
           born == [Unborn EXCEPT !.proc = "running", !.uri = u, !.listening = TRUE]
<1>1. u \in Uris
  BY DEF EntryInv, TypeOK, Spawn
<1>2. /\ pty[p].proc = "none" /\ sent' = sent
      /\ pty' = [pty EXCEPT ![p] = born]
      /\ entries' = [entries EXCEPT ![u] = p]
  BY DEF Spawn
<1> HIDE DEF born
<1>3. pty[p].uri = None
  BY <1>2 DEF EntryInv, IdleInv, Unborn
<1>4. ASSUME NEW v \in Uris, NEW i \in DOMAIN sent[v]
      PROVE  sent[v][i].pty \in Ptys /\ sent[v][i].pty # p /\ Said(sent[v][i], pty[sent[v][i].pty], v)
  <2>1. sent[v][i] \in Notices
    BY DEF EntryInv, TypeOK
  <2>2. sent[v][i].pty \in Ptys
    BY <2>1 DEF Notices
  <2>3. Said(sent[v][i], pty[sent[v][i].pty], v)
    BY DEF SentInv
  <2>4. pty[sent[v][i].pty].uri = v /\ v # None
    BY <2>3, SizesAssumption DEF Said
  <2> QED
    BY <2>2, <2>3, <2>4, <1>3
<1>5. \A q \in Ptys : q # p => pty'[q] = pty[q]
  BY <1>2 DEF EntryInv, TypeOK
<1>6. ASSUME NEW v \in Uris
      PROVE  /\ Runs(sent'[v])
             /\ \A i \in DOMAIN sent'[v] : Said(sent'[v][i], pty'[sent'[v][i].pty], v)
             /\ entries'[v] # None => Last(sent'[v], entries'[v])
  <2>1. Runs(sent'[v])
    BY <1>2 DEF SentInv
  <2>2. \A i \in DOMAIN sent'[v] : Said(sent'[v][i], pty'[sent'[v][i].pty], v)
    BY <1>2, <1>4, <1>5
  <2>3. CASE v = u
    <3>1. entries'[v] = p
      BY <2>3, <1>1, <1>2 DEF EntryInv, TypeOK
    <3>2. \A i \in DOMAIN sent[v] : sent[v][i].pty # p
      BY <1>4
    <3>3. Last(sent[v], p)
      BY <3>2 DEF Last
    <3> QED
      BY <2>1, <2>2, <3>1, <3>3, <1>2
  <2>4. CASE v # u
    <3>1. entries'[v] = entries[v]
      BY <2>4, <1>2 DEF EntryInv, TypeOK
    <3> QED
      BY <2>1, <2>2, <3>1, <1>2 DEF SentInv
  <2> QED
    BY <2>3, <2>4
<1> QED
  BY <1>6 DEF SentInv

LEMMA RecordsGoOn ==
  ASSUME NEW before \in [Ptys -> Records], NEW p \in Ptys, NEW record \in Records,
         GoesOn(before[p], record)
  PROVE  \A q \in Ptys : GoesOn(before[q], [before EXCEPT ![p] = record][q])
<1>1. ASSUME NEW q \in Ptys PROVE GoesOn(before[q], [before EXCEPT ![p] = record][q])
  <2>1. CASE q = p
    BY <2>1
  <2>2. CASE q # p
    BY <2>2, StaysGoesOn
  <2> QED
    BY <2>1, <2>2
<1> QED
  BY <1>1

LEMMA EmptiedGoesOn ==
  ASSUME NEW record \in Records, Batch(record)
  PROVE  GoesOn(record, Emptied(record))
<1>1. /\ Emptied(record).uri = record.uri /\ Emptied(record).proc = record.proc
      /\ Out(Emptied(record)) = record.read
  BY EmptiedRecord, EmptiedBatch
<1>2. Out(record) <= record.read
  BY RecordNumbers DEF Out
<1> QED
  BY <1>1, <1>2 DEF GoesOn

(* The batch of an entry is published.                                      *)
LEMMA FlushTells ==
  ASSUME EntryInv, ScreenInv, SentInv, NEW u \in Uris, NEW p \in Ptys, entries[u] = p,
         NEW after \in [Ptys -> Records],
         after[p] = Emptied(pty[p]), \A q \in Ptys : q # p => after[q] = pty[q]
  PROVE  /\ sent[u] \o Data(p, pty[p].pending) \in Seq(Notices)
         /\ Tells(sent[u] \o Data(p, pty[p].pending), after, u, p)
         /\ \A q \in Ptys : GoesOn(pty[q], after[q])
<1>1. pty[p] \in Records /\ Batch(pty[p]) /\ pty \in [Ptys -> Records]
  BY DEF EntryInv, TypeOK, ScreenInv
<1>2. entries[u] # None /\ pty[p].uri = u
  BY EntryFacts, SizesAssumption
<1>3. sent[u] \in Seq(Notices) /\ Tells(sent[u], pty, u, p)
  BY <1>2, EntryTells
<1>4. pty[p].pending # <<>> => pty[p].proc = "running"
  BY DEF EntryInv, IdleInv
<1> QED
  BY <1>1, <1>2, <1>3, <1>4, TellsData

LEMMA FlushSent ==
  ASSUME EntryInv, ScreenInv, SentInv, NEW p \in Ptys, FlushFires(p)
  PROVE  SentInv'
<1> DEFINE u == pty[p].uri
           t == sent[u] \o Data(p, pty[p].pending)
<1>1. pty[p] \in Records /\ Batch(pty[p]) /\ pty \in [Ptys -> Records]
  BY DEF EntryInv, TypeOK, ScreenInv
<1>2. pty' = [pty EXCEPT ![p] = Emptied(pty[p])] /\ entries' = entries
  BY DEF FlushFires, Flush
<1>3. pty' \in [Ptys -> Records]
  BY FlushEntry DEF EntryInv, TypeOK
<1>4. CASE Attached(p)
  <2>1. u \in Uris /\ entries[u] = p /\ entries[u] # None
    BY <1>4, AttachedFacts
  <2>2. pty'[p] = Emptied(pty[p]) /\ \A q \in Ptys : q # p => pty'[q] = pty[q]
    BY <1>1, <1>2
  <2>3. Tells(t, pty', u, p) /\ \A q \in Ptys : GoesOn(pty[q], pty'[q])
    BY <1>3, <2>1, <2>2, FlushTells
  <2>4. sent' = [sent EXCEPT ![u] = t]
    BY <1>4 DEF FlushFires, Flush
  <2> HIDE DEF t
  <2> QED
    BY <1>2, <1>3, <2>1, <2>3, <2>4, ToldSent
<1>5. CASE ~Attached(p)
  <2>1. sent' = sent
    BY <1>5 DEF FlushFires, Flush
  <2>2. GoesOn(pty[p], Emptied(pty[p])) /\ Emptied(pty[p]) \in Records
    BY <1>1, EmptiedGoesOn, EmptiedRecord
  <2>3. \A q \in Ptys : GoesOn(pty[q], pty'[q])
    BY <1>1, <1>2, <2>2, RecordsGoOn
  <2> QED
    BY <1>2, <1>3, <2>1, <2>3, QuietSent
<1> QED
  BY <1>4, <1>5

LEMMA OnDataSent ==
  ASSUME EntryInv, ScreenInv, SentInv, NEW p \in Ptys, OnData(p)
  PROVE  SentInv'
<1> DEFINE u == pty[p].uri
           grown == Grown(pty[p])
           t == sent[u] \o Data(p, grown.pending)
<1>1. /\ pty[p] \in Records /\ Batch(pty[p]) /\ pty \in [Ptys -> Records]
      /\ pty[p].read < MaxChunks /\ pty[p].proc = "running" /\ Attached(p)
  BY DEF EntryInv, TypeOK, ScreenInv, OnData
<1>2. /\ grown \in Records /\ grown.uri = u /\ grown.proc = pty[p].proc /\ Batch(grown)
  BY <1>1, GrownRecord, GrownBatch
<1>3. Out(grown) = Out(pty[p])
  <2>1. grown.pending = Append(pty[p].pending, pty[p].read + 1) /\ grown.read = pty[p].read + 1
    BY <1>1, GrownRecord
  <2>2. pty[p].pending \in Seq(Chunks) /\ pty[p].read \in Nat /\ Len(pty[p].pending) \in Nat
    BY <1>1, RecordNumbers
  <2> HIDE DEF grown
  <2>3. Len(grown.pending) = Len(pty[p].pending) + 1
    BY <2>1, <2>2
  <2> QED
    BY <2>1, <2>2, <2>3 DEF Out
<1>4. u \in Uris /\ entries[u] = p /\ entries[u] # None
  BY <1>1, AttachedFacts
<1>5. sent[u] \in Seq(Notices) /\ Tells(sent[u], pty, u, p)
  BY <1>4, EntryTells
<1>6. pty' \in [Ptys -> Records] /\ entries' = entries
  BY OnDataEntry DEF EntryInv, TypeOK, OnData
<1>7. CASE Len(grown.pending) >= Threshold
  <2>1. pty' = [pty EXCEPT ![p] = Emptied(grown)] /\ sent' = [sent EXCEPT ![u] = t]
    BY <1>7 DEF OnData
  <2> HIDE DEF grown
  <2>2. pty'[p] = Emptied(grown) /\ \A q \in Ptys : q # p => pty'[q] = pty[q]
    BY <1>1, <2>1
  <2>3. Tells(t, pty', u, p) /\ \A q \in Ptys : GoesOn(pty[q], pty'[q])
    BY <1>1, <1>2, <1>3, <1>4, <1>5, <1>6, <2>2, TellsData
  <2> HIDE DEF t
  <2> QED
    BY <1>4, <1>6, <2>1, <2>3, ToldSent
<1>8. CASE ~(Len(grown.pending) >= Threshold)
  <2>1. pty' = [pty EXCEPT ![p] = grown] /\ sent' = sent
    BY <1>8 DEF OnData
  <2> HIDE DEF grown
  <2>2. Out(pty[p]) \in Int
    BY <1>1, OutNumber
  <2>3. GoesOn(pty[p], grown)
    BY <1>2, <1>3, <2>2 DEF GoesOn
  <2>4. \A q \in Ptys : GoesOn(pty[q], pty'[q])
    BY <1>1, <1>2, <2>1, <2>3, RecordsGoOn
  <2> QED
    BY <1>6, <2>1, <2>4, QuietSent
<1> QED
  BY <1>7, <1>8

(* Output that waits is announced, then the end of the process.             *)
LEMMA TellsDataThenExit ==
  ASSUME EntryInv, ScreenInv, SentInv, NEW u \in Uris, NEW p \in Ptys, entries[u] = p,
         pty[p].proc = "running", NEW record \in Records, record.uri = u,
         record.proc # "running", record.pending = <<>>, record.read = pty[p].read,
         pty' = [pty EXCEPT ![p] = record]
  PROVE  LET t == sent[u] \o Data(p, pty[p].pending) \o Exited(p)
         IN  /\ t \in Seq(Notices)
             /\ Tells(t, pty', u, p)
             /\ \A q \in Ptys : GoesOn(pty[q], pty'[q])
<1> DEFINE told == sent[u] \o Data(p, pty[p].pending)
           mid == [pty EXCEPT ![p] = Emptied(pty[p])]
<1>1. pty \in [Ptys -> Records] /\ pty[p] \in Records /\ Batch(pty[p])
  BY DEF EntryInv, TypeOK, ScreenInv
<1>2. entries[u] # None /\ pty[p].uri = u
  BY EntryFacts, SizesAssumption
<1>4. /\ told \in Seq(Notices) /\ mid \in [Ptys -> Records]
      /\ Tells(told, mid, u, p)
  <2>1. /\ mid \in [Ptys -> Records] /\ mid[p] = Emptied(pty[p])
        /\ \A q \in Ptys : q # p => mid[q] = pty[q]
    BY <1>1, EmptiedRecord
  <2> HIDE DEF mid
  <2> QED
    BY <2>1, FlushTells
<1>5. /\ mid[p] = Emptied(pty[p]) /\ Emptied(pty[p]).uri = u /\ Emptied(pty[p]).proc = "running"
      /\ Out(Emptied(pty[p])) = pty[p].read /\ \A q \in Ptys : q # p => mid[q] = pty[q]
  BY <1>1, <1>2, EmptiedRecord, EmptiedBatch
<1>6. Len(record.pending) = 0
  OBVIOUS
<1>7. Out(record) = pty[p].read /\ pty[p].read \in Nat /\ Out(pty[p]) <= pty[p].read
  BY <1>1, <1>6, RecordNumbers DEF Out
<1>8. GoesOn(mid[p], record) /\ GoesOn(pty[p], record)
  BY <1>2, <1>5, <1>7 DEF GoesOn
<1>9. pty' \in [Ptys -> Records] /\ pty'[p] = record
  BY <1>1
<1>10. pty' = [mid EXCEPT ![p] = record]
  BY <1>1, <1>4, <1>5
<1> HIDE DEF told, mid
<1>11. \A q \in Ptys : GoesOn(mid[q], pty'[q])
  BY <1>4, <1>8, <1>10, RecordsGoOn
<1>12. \A q \in Ptys : GoesOn(pty[q], pty'[q])
  BY <1>1, <1>8, RecordsGoOn
<1>13. told \o Exited(p) \in Seq(Notices) /\ Tells(told \o Exited(p), pty', u, p)
  <2>1. mid[p].proc = "running" /\ mid[p].uri = u /\ pty'[p].proc # "running"
    BY <1>5, <1>9
  <2> QED
    BY <1>4, <1>9, <1>11, <2>1, TellsExit
<1> QED
  BY <1>12, <1>13 DEF told

LEMMA OnExitSent ==
  ASSUME EntryInv, ScreenInv, SentInv, NEW p \in Ptys, OnExit(p)
  PROVE  SentInv'
<1> DEFINE u == pty[p].uri
           emptied == Emptied(pty[p])
           record == [emptied EXCEPT !.proc = "exited", !.listening = FALSE]
           t == sent[u] \o Data(p, pty[p].pending) \o Exited(p)
<1>1. /\ pty[p] \in Records /\ pty[p].proc = "running" /\ Attached(p)
      /\ pty' = [pty EXCEPT ![p] = record] /\ entries' = entries
      /\ sent' = [sent EXCEPT ![u] = t]
  BY DEF EntryInv, TypeOK, OnExit
<1>2. u \in Uris /\ entries[u] = p
  BY <1>1, AttachedFacts
<1>3. /\ emptied \in Records /\ emptied.uri = u /\ emptied.pending = <<>> /\ emptied.read = pty[p].read
  BY <1>1, EmptiedRecord
<1> HIDE DEF emptied
<1>4. /\ record \in Records /\ record.uri = u /\ record.pending = <<>> /\ record.read = pty[p].read
      /\ record.proc # "running"
  BY <1>3 DEF Records, ProcStates
<1> HIDE DEF record
<1>5. pty' \in [Ptys -> Records]
  BY OnExitEntry DEF EntryInv, TypeOK
<1>6. Tells(t, pty', u, p) /\ \A q \in Ptys : GoesOn(pty[q], pty'[q])
  BY <1>1, <1>2, <1>4, TellsDataThenExit
<1> HIDE DEF t
<1> QED
  BY <1>1, <1>2, <1>5, <1>6, ToldSent

LEMMA JoinThree ==
  ASSUME NEW s \in Seq(Notices), NEW a \in Seq(Notices), NEW b \in Seq(Notices)
  PROVE  s \o (a \o b) = (s \o a) \o b
  OBVIOUS

LEMMA DisposeSent ==
  ASSUME EntryInv, ScreenInv, SentInv, NEW u \in Uris, Dispose(u)
  PROVE  SentInv'
<1>0. PICK fate \in Fates :
      pty' = [pty EXCEPT ![entries[u]] = Removed(@, store[u].status = "running", fate)]
  BY DEF Dispose
<1> DEFINE p == entries[u]
           running == store[u].status = "running"
           record == Removed(pty[p], running, fate)
           t == sent[u] \o Farewell(p, running)
<1>1. /\ entries[u] # None
      /\ pty' = [pty EXCEPT ![p] = record]
      /\ sent' = [sent EXCEPT ![u] = t]
      /\ entries' = [entries EXCEPT ![u] = None]
  BY <1>0 DEF Dispose
<1>2. /\ p \in Ptys /\ pty[p] \in Records /\ pty[p].uri = u /\ pty[p].proc = store[u].status
      /\ Batch(pty[p]) /\ pty \in [Ptys -> Records]
  BY <1>1, EntryFacts DEF ScreenInv, EntryInv, TypeOK
<1>3. sent[u] \in Seq(Notices) /\ Tells(sent[u], pty, u, p)
  BY <1>1, EntryTells
<1>4. pty' \in [Ptys -> Records]
  BY DisposeEntry DEF EntryInv, TypeOK
<1>5. \A v \in Uris : entries'[v] # None => entries'[v] = entries[v]
  BY <1>1 DEF EntryInv, TypeOK
<1>6. /\ record \in Records /\ record.uri = u /\ record.pending = <<>> /\ record.read = pty[p].read
      /\ running => record.proc # "running"
  <2>1. /\ record \in Records /\ record.uri = pty[p].uri /\ record.pending = <<>>
        /\ record.read = pty[p].read /\ record.proc = IF running THEN fate ELSE pty[p].proc
    BY <1>2, RemovedRecord
  <2>2. fate # "running"
    BY DEF Fates
  <2> HIDE DEF record
  <2> QED
    BY <1>2, <2>1, <2>2
<1>7. Data(p, pty[p].pending) \in Seq(Notices) /\ Exited(p) \in Seq(Notices)
  BY <1>2, RecordNumbers, NoticeTypes
<1>8. running \in BOOLEAN /\ (running <=> pty[p].proc = "running")
  BY <1>2
<1> HIDE DEF record, running
<1>9. Tells(t, pty', u, p) /\ \A q \in Ptys : GoesOn(pty[q], pty'[q])
  <2>1. CASE running
    <3>1. Farewell(p, running) = Data(p, pty[p].pending) \o Exited(p)
      BY <2>1 DEF Farewell
    <3>2. t = sent[u] \o Data(p, pty[p].pending) \o Exited(p)
      <4>1. sent[u] \o (Data(p, pty[p].pending) \o Exited(p)) = (sent[u] \o Data(p, pty[p].pending)) \o Exited(p)
        BY <1>3, <1>7, JoinThree
      <4> QED
        BY <3>1, <4>1
    <3>3. pty[p].proc = "running" /\ record.proc # "running"
      BY <2>1, <1>6, <1>8
    <3>4. entries[u] = p /\ p \in Ptys /\ pty' = [pty EXCEPT ![p] = record]
      BY <1>1, <1>2
    <3>5. record \in Records /\ record.uri = u /\ record.pending = <<>> /\ record.read = pty[p].read
      BY <1>6
    <3> HIDE DEF t
    <3> QED
      BY <3>2, <3>3, <3>4, <3>5, TellsDataThenExit
  <2>2. CASE ~running
    <3>1. pty[p].proc # "running" /\ pty[p].pending = <<>>
      BY <2>2, <1>2, <1>8 DEF EntryInv, IdleInv
    <3>2. Farewell(p, running) = <<>>
      BY <2>2, <3>1 DEF Farewell, Data
    <3>3. t = sent[u]
      BY <3>2, <1>3
    <3>4. GoesOn(pty[p], record)
      BY <1>2, <1>8, <3>1, RemovedGoesOn DEF record
    <3>5. \A q \in Ptys : GoesOn(pty[q], pty'[q])
      BY <1>1, <1>2, <1>6, <3>4, RecordsGoOn
    <3> HIDE DEF t
    <3> QED
      BY <1>2, <1>3, <1>4, <3>3, <3>5, StillTells
  <2> QED
    BY <2>1, <2>2
<1> HIDE DEF t
<1> QED
  BY <1>1, <1>2, <1>4, <1>5, <1>9, ToldSent

LEMMA ClearSent ==
  ASSUME EntryInv, ScreenInv, SentInv, NEW u \in Uris, NEW c \in Clients, Clear(u, c)
  PROVE  SentInv'
<1> DEFINE p == entries[u]
           emptied == Emptied(pty[p])
           hooked == [emptied EXCEPT !.cleared = pty[p].read]
           unhooked == [pty[p] EXCEPT !.cleared = pty[p].read - Len(pty[p].pending)]
           record == IF Hooked(u) THEN hooked ELSE unhooked
<1>1. entries[u] # None
  BY DEF Clear, Valid, EntryInv, NoStrayTerminal
<1>2. p \in Ptys /\ pty[p] \in Records /\ Batch(pty[p]) /\ pty \in [Ptys -> Records]
  BY <1>1, EntryFacts DEF ScreenInv, EntryInv, TypeOK
<1>3. pty' = [pty EXCEPT ![p] = record] /\ sent' = sent /\ entries' = entries
  BY DEF Clear, Cleared
<1>4. pty' \in [Ptys -> Records]
  BY ClearScreen DEF EntryInv, TypeOK
<1>5. record \in Records
  BY <1>2, <1>3, <1>4
<1>6. emptied \in Records /\ GoesOn(pty[p], emptied)
  BY <1>2, EmptiedRecord, EmptiedGoesOn
<1> HIDE DEF emptied
<1>7. GoesOn(pty[p], hooked)
  <2>1. /\ hooked.uri = emptied.uri /\ hooked.proc = emptied.proc
        /\ hooked.read = emptied.read /\ hooked.pending = emptied.pending
    BY <1>6 DEF Records
  <2> QED
    BY <2>1, <1>6 DEF GoesOn, Out
<1>8. GoesOn(pty[p], unhooked)
  <2>1. /\ unhooked.uri = pty[p].uri /\ unhooked.proc = pty[p].proc
        /\ unhooked.read = pty[p].read /\ unhooked.pending = pty[p].pending
    BY <1>2 DEF Records
  <2>2. Out(unhooked) = Out(pty[p]) /\ Out(pty[p]) \in Int
    BY <2>1, <1>2, OutNumber DEF Out
  <2> HIDE DEF unhooked
  <2> QED
    BY <2>1, <2>2 DEF GoesOn
<1> HIDE DEF hooked, unhooked
<1>9. GoesOn(pty[p], record)
  BY <1>7, <1>8
<1> HIDE DEF record
<1>10. \A q \in Ptys : GoesOn(pty[q], pty'[q])
  BY <1>2, <1>3, <1>5, <1>9, RecordsGoOn
<1> QED
  BY <1>3, <1>4, <1>10, QuietSent

-----------------------------------------------------------------------------
(* The induction.                                                           *)

TerminalInv == EntryInv /\ ScreenInv /\ SentInv

LEMMA UntouchedScreen ==
  ASSUME ScreenInv, UNCHANGED <<entries, pty, store>>
  PROVE  ScreenInv'
  BY DEF ScreenInv

LEMMA UntouchedSent ==
  ASSUME SentInv, UNCHANGED <<entries, pty, sent>>
  PROVE  SentInv'
  BY DEF SentInv

LEMMA InitSent == Init => SentInv
<1> SUFFICES ASSUME Init, NEW u \in Uris
             PROVE  /\ Runs(sent[u])
                    /\ \A i \in DOMAIN sent[u] : Said(sent[u][i], pty[sent[u][i].pty], u)
                    /\ entries[u] # None => Last(sent[u], entries[u])
  BY DEF SentInv
<1>1. sent[u] = <<>> /\ DOMAIN sent[u] = {}
  BY DEF Init
<1> QED
  BY <1>1 DEF Runs, Last

LEMMA TerminalStep ==
  ASSUME TerminalInv, [Next]_vars
  PROVE  TerminalInv'
<1> USE DEF TerminalInv
<1>1. ASSUME NEW r \in Requests, NEW u \in Uris, NEW c \in Clients, Create(r, u, c)
      PROVE  TerminalInv'
  BY <1>1, CreateEntry, UntouchedScreen, UntouchedSent DEF Create
<1>2. ASSUME NEW r \in Requests, NEW p \in Ptys, Spawn(r, p) PROVE TerminalInv'
  BY <1>2, SpawnEntry, SpawnScreen, SpawnSent
<1>3. ASSUME NEW r \in Requests, CreateFails(r) PROVE TerminalInv'
  BY <1>3, CreateFailsEntry, UntouchedScreen, UntouchedSent DEF CreateFails
<1>4. ASSUME NEW p \in Ptys, OnData(p) PROVE TerminalInv'
  BY <1>4, OnDataEntry, OnDataScreen, OnDataSent
<1>5. ASSUME NEW p \in Ptys, FlushFires(p) PROVE TerminalInv'
  BY <1>5, FlushEntry, FlushScreen, FlushSent
<1>6. ASSUME NEW p \in Ptys, OnExit(p) PROVE TerminalInv'
  BY <1>6, OnExitEntry, OnExitScreen, OnExitSent
<1>7. ASSUME NEW p \in Ptys, Dies(p) PROVE TerminalInv'
  BY <1>7, DiesEntry, DiesScreen, DiesSent
<1>8. ASSUME NEW u \in Uris, Dispose(u) PROVE TerminalInv'
  BY <1>8, DisposeEntry, DisposeScreen, DisposeSent
<1>9. ASSUME NEW u \in Uris, NEW c \in Clients, NEW title \in Titles, Retitle(u, c, title)
      PROVE  TerminalInv'
  BY <1>9, RetitleEntry, RetitleScreen, UntouchedSent DEF Retitle
<1>10. ASSUME NEW u \in Uris, NEW c \in Clients, Clear(u, c) PROVE TerminalInv'
  BY <1>10, ClearScreen, ClearSent
<1>11. CASE Shutdown
  BY <1>11, ShutdownEntry, ShutdownScreen, ShutdownSent
<1>12. CASE UNCHANGED vars
  <2>1. EntryInv'
    BY <1>12 DEF vars, EntryInv, TypeOK, NoStrayTerminal, IdleInv, Attached, CatalogueOf
  <2> QED
    BY <1>12, <2>1, UntouchedScreen, UntouchedSent DEF vars
<1> QED
  BY <1>1, <1>2, <1>3, <1>4, <1>5, <1>6, <1>7, <1>8, <1>9, <1>10, <1>11, <1>12 DEF Next

LEMMA TerminalInvariant == Spec => []TerminalInv
<1>1. Init => TerminalInv
  BY InitEntry, InitScreen, InitSent DEF TerminalInv
<1>2. TerminalInv /\ [Next]_vars => TerminalInv'
  BY TerminalStep
<1> QED
  BY <1>1, <1>2, PTL DEF Spec

(* Every variable keeps its type: in particular no output is numbered       *)
(* beyond what its process wrote.                                           *)
THEOREM TerminalTypes == Spec => []TypeOK
<1>1. TerminalInv => TypeOK
  BY DEF TerminalInv, EntryInv
<1> QED
  BY <1>1, TerminalInvariant, PTL

(* A terminal channel, its entry, its process and its place in the          *)
(* catalogue come and go together, whatever creations wait for stat while   *)
(* others spawn, exit, are disposed of or the service shuts down.           *)
THEOREM NoTerminalStrays == Spec => []NoStrayTerminal
<1>1. TerminalInv => NoStrayTerminal
  BY DEF TerminalInv, EntryInv
<1> QED
  BY <1>1, TerminalInvariant, PTL

(* The screen and the batch together hold what the process wrote since the  *)
(* last clear, in order and less only what is no longer retained, for any   *)
(* threshold of the batch and any size of the screen.                       *)
THEOREM ScreenIsAlwaysComplete == Spec => []ScreenComplete
<1>1. TerminalInv => ScreenComplete
  BY ScreenIsComplete DEF TerminalInv
<1> QED
  BY <1>1, TerminalInvariant, PTL

(* On a channel the actions of one process are one run: its output in the   *)
(* order written, then at most one exit, then those of the next process;    *)
(* neither a late batch nor a second spawn of the URI comes in between.     *)
THEOREM OutputIsThenExit == Spec => []OutputThenExit
<1>1. TerminalInv => OutputThenExit
  BY DEF TerminalInv, SentInv, Runs, OutputThenExit
<1> QED
  BY <1>1, TerminalInvariant, PTL
=============================================================================
