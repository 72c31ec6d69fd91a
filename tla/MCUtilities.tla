---------------------------- MODULE MCUtilities ----------------------------
(***************************************************************************)
(* Instances of ConsistentHash, Form, Errors, Retry, Cache and RedisLock    *)
(* for TLC: a behaviour is one of a ring, of a form being decoded, of error *)
(* objects, of a retried call, of a cached row or of a lock, while the      *)
(* others rest.  The ring has three nodes with two points each out of six:  *)
(* a and b collide at point 2, c with itself at 4.                          *)
(***************************************************************************)
EXTENDS ConsistentHash, Errors, RedisState, Retry

CONSTANTS a, b, c

VARIABLES part, form, keys, message, decoded

formVars == <<form, keys, message, decoded>>
cacheVars == <<db, value, until, owner, pc, loader, loaded, found, v, fills, late, failed, version, lapses>>
lockVars == <<object, key, within, working>>

MCHash == [n \in Nodes |-> [i \in 0 .. 1 |->
             CASE n = a -> 2 - 2 * i [] n = b -> 2 + i [] OTHER -> 4]]
MCRehash == [h \in 0 .. 5 |-> h + 1]

\* A message with fields of every shape, and the types of its messages.
Field(name, json, kind, card, type, oneof) ==
  [name |-> name, json |-> json, kind |-> kind, card |-> card, type |-> type, oneof |-> oneof,
   key |-> IF card # "map" THEN "" ELSE IF name = "codes" THEN "int32" ELSE "string"]
Schema ==
  [Req |-> {Field("id", "id", "int32", "one", "", ""),
            Field("user_name", "userName", "string", "one", "", ""),
            Field("tags", "tags", "int64", "list", "", ""),
            Field("attrs", "attrs", "bool", "map", "", ""),
            Field("codes", "codes", "string", "map", "", ""),
            Field("sub", "sub", "message", "one", "Sub", ""),
            Field("at", "at", "message", "one", "Timestamp", ""),
            Field("any", "any", "message", "one", "Struct", ""),
            Field("text", "text", "string", "one", "", "choice"),
            Field("num", "num", "enum", "one", "", "choice"),
            Field("box", "box", "message", "one", "Sub", "choice")},
   Sub |-> {Field("n", "n", "uint32", "one", "", ""), Field("m", "m", "bytes", "map", "", "")},
   Timestamp |-> {Field("seconds", "seconds", "int64", "one", "", "")},
   Struct |-> {Field("fields", "fields", "message", "map", "Value", "")}]

Seg(name) == [name |-> name, brackets |-> FALSE]
FormKeys ==
  {<<Seg(n)>> : n \in {"id", "user_name", "userName", "tags", "attrs", "at", "any", "text", "num", "zz"}}
  \union {<<[name |-> "tags", brackets |-> TRUE]>>}
  \union {<<Seg(p[1]), Seg(p[2])>> :
             p \in {<<"attrs", "k">>, <<"codes", "k">>, <<"codes", "1">>, <<"codes", "01">>, <<"sub", "n">>,
                    <<"sub", "m">>, <<"box", "n">>, <<"at", "seconds">>, <<"any", "k">>, <<"id", "k">>}}
  \union {<<Seg("sub"), Seg("m"), Seg(k)>> : k \in {"k", "l"}}
FormValues == {<<"">>, <<"1">>, <<"null">>, <<"1", "x">>}
Forms == UNION {[ks -> FormValues] : ks \in {s \in SUBSET FormKeys : Cardinality(s) \in 1 .. 2}}

\* Next to the powers of two, the largest, and two that are no wait.
MCDelays == {-128, -100, -2, 0, 1, 3, 4, 62, 63, 64, 126, 127}

\* BackOff, Fixed, Random, the (Fixed, BackOff) of the tests, (Fixed, Fixed,
\* BackOff), (BackOff, Fixed, BackOff), (BackOff, Random) and a Group of nothing.
Calls(before, backoffs, after, randoms) ==
  [before |-> before, backoffs |-> backoffs, after |-> after, randoms |-> randoms]
MCFuncs ==
  {Calls(0, 1, 0, 0), Calls(1, 0, 0, 0), Calls(0, 0, 0, 1), Calls(1, 1, 0, 0), Calls(2, 1, 0, 0),
   Calls(0, 2, 1, 0), Calls(0, 1, 0, 1), Calls(0, 0, 0, 0)}

\* New in a function that calls itself, Wrap in its caller, FromError elsewhere.
MCFrames == [New |-> <<"go", "f:1", "f:1", "g:2", "h:3">>, Wrap |-> <<"g:4", "h:3">>, FromError |-> <<"client:9">>]

Decode == INSTANCE Form

ASSUME BoundsAssumption ==
  /\ Fills \subseteq BOOLEAN /\ MaxVersion \in Nat /\ MaxLapses \in Nat

NoForm == form = <<>> /\ keys = {} /\ message = <<>> /\ decoded = "ok"
NoCall ==
  /\ opt = [f |-> Calls(1, 0, 0, 0), delay |-> 1, maxDelay |-> 0, maxJitter |-> 0, retry |-> 1, backoff |-> 0]
  /\ attempt = 1 /\ waited = 0 /\ wrapped = FALSE /\ outcome = "ok"

NoLock == Lease!Init /\ \A u, w \in Users : object[u] = object[w]

MCInit ==
  /\ RingInit /\ ErrorsInit /\ Row!Init
  /\ \/ part \in {"ring", "errors", "cache"} /\ NoForm /\ NoCall /\ NoLock
     \/ part = "form" /\ Decode!Init /\ NoCall /\ NoLock
     \/ part = "retry" /\ NoForm /\ RetryInit /\ NoLock
     \/ part = "lock" /\ NoForm /\ NoCall /\ Lease!Init

MCNext ==
  \/ part = "ring" /\ RingNext /\ UNCHANGED <<part, formVars, eVars, rVars, cacheVars, lockVars>>
  \/ part = "form" /\ Decode!Next /\ UNCHANGED <<part, ringVars, eVars, rVars, cacheVars, lockVars>>
  \/ part = "errors" /\ ErrorsNext /\ UNCHANGED <<part, ringVars, formVars, rVars, cacheVars, lockVars>>
  \/ part = "retry" /\ RetryNext /\ UNCHANGED <<part, ringVars, formVars, eVars, cacheVars, lockVars>>
  \/ part = "cache" /\ Row!Next /\ UNCHANGED <<part, ringVars, formVars, eVars, rVars, lockVars>>
  \/ part = "lock" /\ Lease!Next /\ UNCHANGED <<part, ringVars, formVars, eVars, rVars, cacheVars>>

MCSpec ==
  MCInit /\ [][MCNext]_<<part, ringVars, formVars, eVars, rVars, cacheVars, lockVars>>

\* A form without colliding keys decodes to one message; see Form.
OrderIndependent == Decode!OrderIndependent

=============================================================================
