---------------------------- MODULE TerminalService ----------------------------
(***************************************************************************)
(* The terminal service (host/terminal-service.ts): pseudoterminals behind *)
(* terminal channels. A channel's protocol state lives in the state store, *)
(* its process and the output not yet published in the service's entry;    *)
(* the root channel's catalogue lists both. Processes write and end when   *)
(* they like, output is published in batches, and a URI may be used again. *)
(*                                                                         *)
(* Output is a sequence of chunks, numbered by each process from 1.        *)
(***************************************************************************)
EXTENDS Integers, Sequences

CONSTANTS
  Uris, Clients,
  Requests,      \* createTerminal requests that may wait at a time
  Ptys,          \* processes there may ever be
  None,
  MaxChunks,     \* chunks one process writes
  Threshold,     \* OUTPUT_BATCH_THRESHOLD_CHARS, in chunks
  Retained       \* MAX_RETAINED_TERMINAL_CHARS, in chunks

Titles == {"shell", "renamed"}
Chunks == 1..MaxChunks

(* The state of a terminal channel.                                         *)
States == [content : Seq(Chunks), status : {"running", "exited"}, title : Titles, owner : Clients]

ASSUME SizesAssumption ==
  /\ MaxChunks \in Nat /\ Threshold \in Nat \ {0} /\ Retained \in Nat \ {0}
  /\ None \notin Uris \union Ptys \union States

VARIABLES
  creating,    \* per request: what it asks for while stat runs
  entries,     \* #entries
  pty,         \* the entries' records, with the processes behind them
  store,       \* the terminal channels of the state store
  catalogue,   \* the root channel's terminals
  closed,      \* #closed
  sent         \* history: the host's terminal/data and terminal/exited actions

vars == <<creating, entries, pty, store, catalogue, closed, sent>>

Unborn == [proc |-> "none", uri |-> None, listening |-> FALSE, pending |-> <<>>, timer |-> FALSE,
           read |-> 0, cleared |-> 0]

Init ==
  /\ creating = [r \in Requests |-> None]
  /\ entries = [u \in Uris |-> None]
  /\ pty = [p \in Ptys |-> Unborn]
  /\ store = [u \in Uris |-> None]
  /\ catalogue = {}
  /\ closed = FALSE
  /\ sent = [u \in Uris |-> <<>>]

-----------------------------------------------------------------------------
(* What publishCatalogue sends, for given entries and states. *)
CatalogueOf(es, st) ==
  {[resource |-> u, title |-> st[u].title, status |-> st[u].status] :
     u \in {v \in Uris : es[v] # None /\ st[v] # None}}

\* Mutant: any URI will do.
AvailableAlways(u) == TRUE

Available(u) == entries[u] = None /\ store[u] = None

Attached(p) == pty[p].uri # None /\ entries[pty[p].uri] = p

(* The newest Retained chunks. *)
Trim(content) ==
  IF Len(content) <= Retained THEN content
  ELSE SubSeq(content, Len(content) - Retained + 1, Len(content))

(* The state of a channel after its process's pending output was published. *)
WithOutput(state, chunks) == [state EXCEPT !.content = Trim(@ \o chunks)]

Data(p, chunks) == IF chunks = <<>> THEN <<>> ELSE <<[pty |-> p, what |-> "data", chunks |-> chunks]>>
Exited(p) == <<[pty |-> p, what |-> "exited", chunks |-> <<>>]>>

(* The entry's record after discardPendingData or flushPendingData.         *)
Emptied(record) == [record EXCEPT !.pending = <<>>, !.timer = FALSE]

Flush(p) ==
  LET u == pty[p].uri
  IN  /\ pty' = [pty EXCEPT ![p] = Emptied(@)]
      /\ IF Attached(p)
         THEN /\ store' = [store EXCEPT ![u] = WithOutput(@, pty[p].pending)]
              /\ sent' = [sent EXCEPT ![u] = @ \o Data(p, pty[p].pending)]
         ELSE UNCHANGED <<store, sent>>

-----------------------------------------------------------------------------
(* create: two checks for the URI, with stat between them.                  *)

Create(r, u, c) ==
  /\ ~closed
  /\ creating[r] = None
  /\ Available(u)
  /\ creating' = [creating EXCEPT ![r] = [uri |-> u, client |-> c]]
  /\ UNCHANGED <<entries, pty, store, catalogue, closed, sent>>

NewState(c) == [content |-> <<>>, status |-> "running", title |-> "shell", owner |-> c]

Spawn(r, p) ==
  /\ creating[r] # None
  /\ pty[p].proc = "none" /\ p = CHOOSE q \in Ptys : pty[q].proc = "none"
  /\ LET u == creating[r].uri
         c == creating[r].client
     IN  /\ Available(u)
         /\ pty' = [pty EXCEPT ![p] = [Unborn EXCEPT !.proc = "running", !.uri = u, !.listening = TRUE]]
         /\ store' = [store EXCEPT ![u] = NewState(c)]
         /\ entries' = [entries EXCEPT ![u] = p]
  /\ catalogue' = CatalogueOf(entries', store')
  /\ creating' = [creating EXCEPT ![r] = None]
  /\ UNCHANGED <<closed, sent>>

(* The directory is missing, the URI was taken meanwhile, or spawn throws.  *)
CreateFails(r) ==
  /\ creating[r] # None
  /\ creating' = [creating EXCEPT ![r] = None]
  /\ UNCHANGED <<entries, pty, store, catalogue, closed, sent>>

-----------------------------------------------------------------------------
(* What the process does.                                                   *)

(* What becomes of a process that is removed: kill may throw, which is      *)
(* only logged, and then it goes on.                                        *)
Fates == {"killed", "spared"}

\* Mutant: only the first output sets the timer.
GrownOnce(record) ==
  [record EXCEPT !.pending = Append(@, record.read + 1), !.read = @ + 1, !.timer = @ \/ record.read = 0]

(* One chunk more is waiting, and the timer is set.                         *)
Grown(record) == [record EXCEPT !.pending = Append(@, record.read + 1), !.read = @ + 1, !.timer = TRUE]

OnData(p) ==
  LET grown   == Grown(pty[p])
      pending == grown.pending
      u       == pty[p].uri
  IN  /\ pty[p].proc = "running" /\ pty[p].listening /\ pty[p].read < MaxChunks
      /\ Attached(p)
      /\ IF Len(pending) >= Threshold
         THEN /\ pty' = [pty EXCEPT ![p] = Emptied(grown)]
              /\ store' = [store EXCEPT ![u] = WithOutput(@, pending)]
              /\ sent' = [sent EXCEPT ![u] = @ \o Data(p, pending)]
         ELSE /\ pty' = [pty EXCEPT ![p] = grown]
              /\ UNCHANGED <<store, sent>>
      /\ UNCHANGED <<creating, entries, catalogue, closed>>

FlushFires(p) ==
  /\ pty[p].timer
  /\ Flush(p)
  /\ UNCHANGED <<creating, entries, catalogue, closed>>

OnExit(p) ==
  LET u == pty[p].uri
  IN  /\ pty[p].proc = "running" /\ pty[p].listening
      /\ Attached(p) /\ store[u].status = "running"
      /\ pty' = [pty EXCEPT ![p] = [Emptied(@) EXCEPT !.proc = "exited", !.listening = FALSE]]
      /\ store' = [store EXCEPT ![u] = [WithOutput(@, pty[p].pending) EXCEPT !.status = "exited"]]
      /\ sent' = [sent EXCEPT ![u] = @ \o Data(p, pty[p].pending) \o Exited(p)]
      /\ catalogue' = CatalogueOf(entries, store')
      /\ UNCHANGED <<creating, entries, closed>>

(* A removed process ends: soon if it was killed, any time if kill threw.   *)
(* Nobody listens any more.                                                 *)
Dies(p) ==
  /\ pty[p].proc \in Fates
  /\ pty' = [pty EXCEPT ![p].proc = "exited"]
  /\ UNCHANGED <<creating, entries, store, catalogue, closed, sent>>

-----------------------------------------------------------------------------
(* remove, for one terminal with a notice and for all without.             *)

Removed(record, running, fate) ==
  [Emptied(record) EXCEPT !.listening = FALSE, !.proc = IF running THEN fate ELSE @]

\* Mutant: the end is announced before the output.
FarewellHasty(p, running) == (IF running THEN Exited(p) ELSE <<>>) \o Data(p, pty[p].pending)

(* The actions a client sees of a disposal; the state itself is deleted.    *)
Farewell(p, running) == Data(p, pty[p].pending) \o (IF running THEN Exited(p) ELSE <<>>)

Dispose(u) ==
  /\ entries[u] # None
  /\ LET p       == entries[u]
         running == store[u].status = "running"
     IN  /\ \E fate \in Fates : pty' = [pty EXCEPT ![p] = Removed(@, running, fate)]
         /\ sent' = [sent EXCEPT ![u] = @ \o Farewell(p, running)]
  /\ entries' = [entries EXCEPT ![u] = None]
  /\ store' = [store EXCEPT ![u] = None]
  /\ catalogue' = CatalogueOf(entries', store')
  /\ UNCHANGED <<creating, closed>>

Shutdown ==
  /\ ~closed
  /\ closed' = TRUE
  /\ \E fate \in [Ptys -> Fates] :
       pty' = [p \in Ptys |->
                 IF Attached(p) THEN Removed(pty[p], store[pty[p].uri].status = "running", fate[p]) ELSE pty[p]]
  /\ entries' = [u \in Uris |-> None]
  /\ store' = [u \in Uris |-> IF entries[u] # None THEN None ELSE store[u]]
  /\ catalogue' = CatalogueOf(entries', store')
  /\ UNCHANGED <<creating, sent>>

-----------------------------------------------------------------------------
(* Client actions: validated, reduced, broadcast, then applied here. A      *)
(* service that is shut down has taken back both of its hooks. Input and    *)
(* sizes are handed to the process and leave nothing else behind.           *)

Valid(u, c) ==
  /\ store[u] # None
  /\ closed \/ (entries[u] # None /\ store[u].owner = c)

Hooked(u) == ~closed /\ entries[u] # None

Retitle(u, c, title) ==
  /\ Valid(u, c)
  /\ store' = [store EXCEPT ![u].title = title]
  /\ IF Hooked(u) THEN catalogue' = CatalogueOf(entries, store') ELSE UNCHANGED catalogue
  /\ UNCHANGED <<creating, entries, pty, closed, sent>>

\* Mutant: waiting output is kept.
ClearedScreen(record) == [record EXCEPT !.cleared = record.read]

(* Output that arrived before the clear but waits in the batch goes too.    *)
Cleared(record) == [Emptied(record) EXCEPT !.cleared = record.read]

Clear(u, c) ==
  /\ Valid(u, c)
  /\ store' = [store EXCEPT ![u].content = <<>>]
  /\ LET p == entries[u]
     IN  pty' = [pty EXCEPT ![p] = IF Hooked(u) THEN Cleared(@)
                                   ELSE [@ EXCEPT !.cleared = pty[p].read - Len(pty[p].pending)]]
  /\ UNCHANGED <<creating, entries, catalogue, closed, sent>>

Next ==
  \/ \E r \in Requests :
       \/ \E u \in Uris, c \in Clients : Create(r, u, c)
       \/ \E p \in Ptys : Spawn(r, p)
       \/ CreateFails(r)
  \/ \E p \in Ptys : OnData(p) \/ FlushFires(p) \/ OnExit(p) \/ Dies(p)
  \/ \E u \in Uris : Dispose(u)
  \/ \E u \in Uris, c \in Clients :
       \/ \E title \in Titles : Retitle(u, c, title)
       \/ Clear(u, c)
  \/ Shutdown

(* Timers fire and killed processes die.                                    *)
Fairness == \A p \in Ptys : WF_vars(FlushFires(p)) /\ WF_vars(pty[p].proc = "killed" /\ Dies(p))

Spec == Init /\ [][Next]_vars /\ Fairness

-----------------------------------------------------------------------------
ProcStates == {"none", "running", "exited"} \union Fates

Records == [proc : ProcStates, uri : Uris \union {None}, listening : BOOLEAN,
            pending : Seq(Chunks), timer : BOOLEAN, read : 0..MaxChunks, cleared : 0..MaxChunks]
Notices == [pty : Ptys, what : {"data", "exited"}, chunks : Seq(Chunks)]

TypeOK ==
  /\ creating \in [Requests -> [uri : Uris, client : Clients] \union {None}]
  /\ entries \in [Uris -> Ptys \union {None}]
  /\ pty \in [Ptys -> Records]
  /\ store \in [Uris -> States \union {None}]
  /\ catalogue \subseteq [resource : Uris, title : Titles, status : {"running", "exited"}]
  /\ closed \in BOOLEAN
  /\ sent \in [Uris -> Seq(Notices)]

(* A terminal channel, its entry and its place in the catalogue come and go *)
(* together; an entry's process is heard exactly while the channel says     *)
(* that it runs, and no process runs that no entry stands for, except those *)
(* whose kill threw: create's second check, dispose, exit and shutdown      *)
(* leave neither a channel without a process behind it nor a process that   *)
(* nobody tried to end, and, until shutdown, no path that changes a title   *)
(* or a status forgets the catalogue. A create that was waiting for stat at *)
(* shutdown may still spawn, and then has an entry too.                     *)
NoStrayTerminal ==
  /\ \A u \in Uris :
       /\ (entries[u] = None) <=> (store[u] = None)
       /\ entries[u] # None =>
            /\ pty[entries[u]].uri = u
            /\ pty[entries[u]].proc = store[u].status
            /\ pty[entries[u]].listening <=> store[u].status = "running"
  /\ \A p \in Ptys : pty[p].proc = "running" \/ pty[p].listening => Attached(p)
  /\ ~closed => catalogue = CatalogueOf(entries, store)

Contiguous(chunks) == \A i \in 1..(Len(chunks) - 1) : chunks[i + 1] = chunks[i] + 1

(* What a subscriber is shown and what still waits in the batch are together *)
(* everything the process wrote since the last clear, in order, less only    *)
(* the oldest output beyond what is retained: batching, threshold, exit and  *)
(* clear neither lose, repeat nor reorder output, nor bring cleared output   *)
(* back.                                                                     *)
ScreenComplete ==
  \A u \in Uris : entries[u] # None =>
    LET p       == pty[entries[u]]
        content == store[u].content
        all     == content \o p.pending
    IN  /\ Contiguous(all)
        /\ all # <<>> => all[Len(all)] = p.read /\ all[1] > p.cleared
        /\ Len(all) >= (IF p.read - p.cleared <= Retained THEN p.read - p.cleared ELSE Retained)
        /\ Len(content) <= Retained

(* On a channel the actions of one process form one run: its output in the   *)
(* order written, then at most one exit and nothing after it, then those of  *)
(* the URI's next process.                                                   *)
OutputThenExit ==
  \A u \in Uris : \A i, j \in DOMAIN sent[u] : i < j =>
    LET a == sent[u][i]
        b == sent[u][j]
    IN  IF a.pty = b.pty
        THEN /\ a.what = "data"
             /\ b.what = "data" => a.chunks[Len(a.chunks)] < b.chunks[1]
             /\ \A k \in i..j : sent[u][k].pty = a.pty
        ELSE \A k \in DOMAIN sent[u] : k > j => sent[u][k].pty # a.pty

(* Output does not stay in the batch: the timer that publishes it is always  *)
(* set when it is needed.                                                    *)
OutputPublished ==
  \A p \in Ptys : (pty[p].pending # <<>>) ~> (pty[p].pending = <<>>)
=============================================================================
