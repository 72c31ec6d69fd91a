------------------------------- MODULE Config -------------------------------
(***************************************************************************)
(* config/config.go and map.go over config/source/file: a watcher forwards  *)
(* file events through a one-slot channel, the loader reads the file and    *)
(* merges it into the tree `changed` and the flat cache `cached`, and       *)
(* readers look keys up in the cache and fill it on a miss.                 *)
(* A path is a sequence of names.  A document or the tree gives each path a *)
(* value <<type, value>>; a section has type "map".                         *)
(***************************************************************************)
EXTENDS Integers, Sequences

CONSTANTS
  Paths,       \* the keys readers ask for, leaves and sections, of any depth
  Docs,        \* what the file may contain
  JsonStrings, \* the strings that hold a JSON object or null
  Null,        \* the string "null"
  Json(_, _),  \* what such a string has at a path below it
  Readers,     \* goroutines that call Get
  MaxWrites    \* bound: times the file is changed

Absent == <<"absent", 0>>
NoEntry == <<"noEntry", 0>>
Section == <<"map", 0>>
Type(v) == v[1]
NoDoc == [p \in Paths |-> NoEntry]

\* The sections that a path leads through, and the path of a value's parent.
Up(p) == SubSeq(p, 1, Len(p) - 1)
Above(p) == {SubSeq(p, 1, n) : n \in 1 .. Len(p) - 1}

ASSUME DocsAssumption ==
  /\ MaxWrites \in Nat
  /\ \A p \in Paths : p # <<>> /\ Above(p) \subseteq Paths
  /\ JsonStrings \subseteq {"str"} \X Int
  /\ \A d \in Docs : \A p \in Paths :
       d[p] # Absent => \A q \in Above(p) : Type(d[q]) = "map"

VARIABLES
  file,      \* content of the file: a document, or NoDoc while it is written
  writing,   \* the document being written
  writes,
  watching,  \* whether fsnotify watches the directory
  events,    \* what fsnotify has: events of the "file", or of "other" names
  notify,    \* whether f.notify holds a token
  unseen,    \* history: whether no event of the file told the last change
  lpc,       \* pc of the loader, "dead" when the process is
  buf,       \* what Load read
  changed,   \* c.changed, flat: per path its value
  todo,      \* the values apply still has to store in the cache
  spoilt,    \* history: what merge refused in the last load, and what a Get replaced since
  cached,    \* c.cached: per path its entry or NoEntry
  want       \* per reader: the path it missed in the cache, or <<>>

fileVars == <<file, writing, writes, watching, events, unseen>>
vars == <<fileVars, notify, lpc, buf, changed, todo, spoilt, cached, want>>

\* New, and a File whose watch goroutine may not run yet.
Init ==
  /\ file \in Docs
  /\ writing = NoDoc /\ writes = 0
  /\ watching = FALSE /\ events = {} /\ unseen = FALSE
  /\ notify = FALSE
  /\ lpc = "first" /\ buf = NoDoc
  /\ changed = [p \in Paths |-> Absent]
  /\ todo = {} /\ spoilt = {}
  /\ cached = [p \in Paths |-> NoEntry]
  /\ want = [r \in Readers |-> <<>>]

-----------------------------------------------------------------------------
\* The tree

\* The JSON strings above p: cast.ToStringMapE takes them for sections.
Through(tree, p) == {q \in Above(p) : tree[q] \in JsonStrings}

\* What is at p for spread and deepSearch.
Seen(tree, p) ==
  IF Through(tree, p) = {} THEN tree[p]
  ELSE LET q == CHOOSE q \in Through(tree, p) : TRUE
       IN Json(tree[q], SubSeq(p, Len(q) + 1, Len(p)))

\* What spread lists: neither sections nor what it takes for one.
Stored(v) == Type(v) \notin {"absent", "map"} /\ v \notin JsonStrings

\* Whether merge lets dest's value of q stand against src's.
Stands(dest, src, q) ==
  \/ src[q] = Absent
  \/ dest[q] # Absent /\ Type(dest[q]) # Type(src[q])

\* merge: src wins where the types agree, also inside common sections; a value
\* of another type and whatever src does not mention stay.
Merge(dest, src) ==
  [p \in Paths |-> IF \E q \in Above(p) \union {p} : Stands(dest, src, q) THEN dest[p] ELSE src[p]]

\* What src has and merge refuses, being or going through another type.
Refused(dest, src) ==
  {p \in Paths : \E q \in Above(p) \union {p} : src[q] # Absent /\ Stands(dest, src, q)}

\* What deepSearch writes on its way to p: an empty section wherever it finds
\* none, unless it is in a copy, of the first level or of a JSON string.
Planted(tree, p) ==
  LET broken == {q \in Above(p) : Type(tree[q]) # "map"}
  IN IF \E q \in broken : Len(q) = 1 \/ tree[q] \in JsonStrings THEN {} ELSE broken

-----------------------------------------------------------------------------
\* The file and its watcher

\* Writing truncates the file first.
WriteBegin(d) ==
  /\ writing = NoDoc /\ writes < MaxWrites
  /\ writes' = writes + 1
  /\ writing' = d /\ file' = NoDoc
  /\ events' = IF watching THEN events \union {"file"} ELSE events
  /\ UNCHANGED <<watching, unseen, notify, lpc, buf, changed, todo, spoilt, cached, want>>

WriteEnd ==
  /\ writing # NoDoc
  /\ file' = writing /\ writing' = NoDoc
  /\ events' = IF watching THEN events \union {"file"} ELSE events
  /\ unseen' = ~watching
  /\ UNCHANGED <<writes, watching, notify, lpc, buf, changed, todo, spoilt, cached, want>>

\* The real path changes: a symbolic link above the file is set to another one,
\* and fsnotify tells the name of the link.
Swap(d) ==
  /\ writing = NoDoc /\ writes < MaxWrites
  /\ writes' = writes + 1
  /\ file' = d
  /\ events' = IF watching THEN events \union {"other"} ELSE events
  /\ unseen' = TRUE
  /\ UNCHANGED <<writing, watching, notify, lpc, buf, changed, todo, spoilt, cached, want>>

\* w.Add in the watch goroutine.
WatchStart ==
  /\ ~watching
  /\ watching' = TRUE
  /\ UNCHANGED <<file, writing, writes, events, unseen, notify, lpc, buf, changed, todo, spoilt, cached, want>>

\* Fault: a token is sent only when the loader is waiting for it.
ForwardIfWaiting(e) ==
  /\ e \in events
  /\ events' = events \ {e}
  /\ notify' = (notify \/ (e = "file" /\ lpc = "wait"))
  /\ UNCHANGED <<file, writing, writes, watching, unseen, lpc, buf, changed, todo, spoilt, cached, want>>

\* The watch goroutine passes on a write or creation of the file's own name; a
\* full slot already tells enough.
Forward(e) ==
  /\ e \in events
  /\ events' = events \ {e}
  /\ notify' = (notify \/ e = "file")
  /\ UNCHANGED <<file, writing, writes, watching, unseen, lpc, buf, changed, todo, spoilt, cached, want>>

-----------------------------------------------------------------------------
\* Config.Load and its goroutine

Wait ==
  /\ lpc = "wait" /\ notify
  /\ notify' = FALSE
  /\ lpc' = "read"
  /\ UNCHANGED <<fileVars, buf, changed, todo, spoilt, cached, want>>

\* What can be read of a document that is being written, if it parses: some of
\* its values with the sections they are in.
Begun(d) ==
  {[p \in Paths |-> IF p \in some THEN d[p] ELSE Absent] :
     some \in {ps \in SUBSET Paths : \A p \in ps : Above(p) \subseteq ps}}

\* src.Load and Unmarshal.  What does not parse makes the first load fail, and
\* nothing watches; a later one is skipped.
Read ==
  /\ lpc \in {"first", "read"}
  /\ \/ /\ buf' \in IF file # NoDoc THEN {file} ELSE Begun(writing)
        /\ lpc' = "apply"
     \/ /\ file = NoDoc
        /\ lpc' = IF lpc = "first" THEN "failed" ELSE "wait"
        /\ UNCHANGED buf
  /\ UNCHANGED <<fileVars, notify, changed, todo, spoilt, cached, want>>

\* apply takes the lock and merges; spread lists the values.
Apply ==
  /\ lpc = "apply"
  /\ changed' = Merge(changed, buf) /\ buf' = NoDoc
  /\ spoilt' = Refused(changed, buf)
  /\ todo' = {p \in Paths : Stored(Seen(changed', p))}
  /\ lpc' = "store"
  /\ UNCHANGED <<fileVars, notify, cached, want>>

\* Fault: LoadOrStore, which keeps an entry that is there.
StoreNew ==
  /\ lpc = "store"
  /\ cached' = [p \in Paths |-> IF p \in todo /\ cached[p] = NoEntry THEN Seen(changed, p) ELSE cached[p]]
  /\ todo' = {} /\ lpc' = "wait"
  /\ UNCHANGED <<fileVars, notify, buf, changed, spoilt, want>>

\* They go to the cache one by one, then the lock is released and the callbacks
\* run.
Store ==
  /\ lpc = "store"
  /\ IF todo = {}
     THEN lpc' = "wait" /\ UNCHANGED <<todo, cached>>
     ELSE \E p \in todo :
            /\ cached' = [cached EXCEPT ![p] = Seen(changed, p)]
            /\ todo' = todo \ {p}
            /\ UNCHANGED lpc
  /\ UNCHANGED <<fileVars, notify, buf, changed, spoilt, want>>

-----------------------------------------------------------------------------
\* Config.find

\* A cached key is answered without the lock; a miss goes on.
Find(r, p) ==
  /\ want[r] = <<>> /\ lpc # "dead"
  /\ cached[p] = NoEntry
  /\ want' = [want EXCEPT ![r] = p]
  /\ UNCHANGED <<fileVars, notify, lpc, buf, changed, todo, spoilt, cached>>

\* Under the read lock, which apply's lock excludes: deepSearch, which writes on
\* its way, and what is found is cached, nil included.  A search through "null"
\* panics at its nil map.
FindMiss(r) ==
  /\ want[r] # <<>>
  /\ lpc \notin {"store", "dead"}
  /\ IF \E q \in Above(want[r]) : changed[q] = Null /\ Len(q) + 1 < Len(want[r])
     THEN UNCHANGED <<changed, spoilt, cached>>
     ELSE /\ spoilt' = spoilt \union Planted(changed, want[r])
          /\ changed' = [q \in Paths |-> IF q \in Planted(changed, want[r]) THEN Section ELSE changed[q]]
          /\ cached' = [cached EXCEPT ![want[r]] = Seen(changed, want[r])]
  /\ want' = [want EXCEPT ![r] = <<>>]
  /\ UNCHANGED <<fileVars, notify, lpc, buf, todo>>

\* The read lock does not keep two searches apart: one that writes into a map
\* that another is in ends the process.
FindRace ==
  /\ lpc \notin {"store", "dead"}
  /\ \E r, s \in Readers : \E q \in Planted(changed, want[r]) :
       r # s /\ Type(changed[Up(q)]) = "map" /\ Up(q) \in Above(want[s])
  /\ lpc' = "dead"
  /\ UNCHANGED <<fileVars, notify, buf, changed, todo, spoilt, cached, want>>

Loader == Wait \/ Read \/ Apply \/ Store

Next ==
  \/ (\E d \in Docs : WriteBegin(d) \/ Swap(d)) \/ WriteEnd \/ WatchStart
  \/ \E e \in events : Forward(e)
  \/ Loader
  \/ (\E r \in Readers : FindMiss(r) \/ \E p \in Paths : Find(r, p)) \/ FindRace

\* The goroutines run and a write that began ends.
Spec ==
  /\ Init /\ [][Next]_vars
  /\ WF_vars(WriteEnd) /\ WF_vars(\E e \in events : Forward(e)) /\ WF_vars(Loader)

-----------------------------------------------------------------------------

\* Between loads the cache never disagrees with the tree about a value: a miss
\* that was under way during a load does not put an old value, or nil, back.
\* Not said of what spread takes for a section: the entry that a Get made for a
\* JSON string or for nothing stays when the path becomes one or changes.
CacheFresh ==
  \A p \in Paths :
    (lpc # "store" /\ Stored(Seen(changed, p)) /\ cached[p] # NoEntry) => cached[p] = Seen(changed, p)

\* Whether the tree has what the file says of p, as far as merge accepts it: a
\* value of another type stays, be it an earlier file's or what a Get planted,
\* and a Get of something below a value replaces the value.
Loaded(p) == Type(file[p]) \in {"absent", "map"} \/ changed[p] = file[p] \/ p \in spoilt

\* The last change of the file reaches the tree, however events and tokens are
\* merged on the way, unless no event of the file told it (it came before the
\* watch, or a link was swapped), Load itself failed, or readers raced.
LastWriteLoaded ==
  <>[](file # NoDoc /\ (unseen \/ lpc \in {"failed", "dead"} \/ \A p \in Paths : Loaded(p)))

=============================================================================
