------------------------------- MODULE Errors -------------------------------
(***************************************************************************)
(* errors/errors.go: error objects.  A package keeps an error that New made *)
(* (the sentinel) and its callers derive others from it: With... changes a  *)
(* clone, Wrap puts a text in front of a cause, GRPCStatus and FromError    *)
(* take an error over the wire.  clone marks the object it copies, and      *)
(* returns a marked object as it is: the second With... on an object        *)
(* changes that object.                                                     *)
(***************************************************************************)
EXTENDS Integers, Sequences, FiniteSets, SequencesExt

CONSTANTS
  MaxErrors,  \* bound: error objects
  MaxWiths,   \* bound: With... calls on one object
  Texts,      \* messages, metadata and reasons that With... and Wrap set
  Frames,     \* the stack at a call, by function: "New", "Wrap" or "FromError"
  Hidden      \* the frames in the framework or in Go's own library

ASSUME ErrorsAssumption ==
  /\ MaxErrors \in Nat \ {0} /\ MaxWiths \in Nat
  /\ \A f \in {"New", "Wrap", "FromError"} : Frames[f] \in Seq(STRING)

Nil == 0
Sentinel == 1

VARIABLES
  errors,     \* per object: its fields
  withs,      \* history: per object, the With... calls on it
  kin         \* history: the errors derived from the sentinel

eVars == <<errors, withs, kin>>

\* New
Fresh(code, reason, msg, meta, cause, stack) ==
  [code |-> code, reason |-> reason, msg |-> msg, meta |-> meta, cause |-> cause,
   stack |-> stack, clone |-> FALSE]

First == Fresh(404, "NOT_FOUND", "none", "none", Nil, Frames["New"])

ErrorsInit ==
  /\ errors = <<First>>
  /\ withs = <<0>>
  /\ kin = {Sentinel}

-----------------------------------------------------------------------------

Room == Len(errors) < MaxErrors
Objects == DOMAIN errors

\* The causes of an error, itself first: cyclic if there is no end to them.
Causes[n \in 0 .. MaxErrors] ==
  [e \in Objects \union {Nil} |->
     IF n = 0 \/ e = Nil THEN <<>> ELSE <<e>> \o Causes[n - 1][errors[e].cause]]

Chain(e) == Causes[MaxErrors][e]
Cyclic(e) == errors[Last(Chain(e))].cause # Nil

Allocate(e, isKin) ==
  /\ errors' = Append(errors, e)
  /\ withs' = Append(withs, 0)
  /\ kin' = IF isKin THEN kin \union {Len(errors) + 1} ELSE kin

\* Fault: clone forgets to copy.
WithShares(e, change, isKin) ==
  /\ withs[e] < MaxWiths
  /\ withs' = [withs EXCEPT ![e] = @ + 1]
  /\ errors' = [errors EXCEPT ![e] = [change EXCEPT !.clone = TRUE]]
  /\ kin' = IF isKin THEN kin ELSE kin \ {e}

\* With...: clone, then the change; change is e with the change made.
With(e, change, isKin) ==
  /\ withs[e] < MaxWiths
  /\ IF errors[e].clone
     THEN /\ errors' = [errors EXCEPT ![e] = change]
          /\ withs' = [withs EXCEPT ![e] = @ + 1]
          /\ kin' = IF isKin THEN kin ELSE kin \ {e}
     ELSE /\ Room
          /\ errors' = Append([errors EXCEPT ![e].clone = TRUE], [change EXCEPT !.clone = FALSE])
          /\ withs' = Append([withs EXCEPT ![e] = @ + 1], 0)
          /\ kin' = IF isKin THEN kin \union {Len(errors) + 1} ELSE kin

WithMessage(e, t) == With(e, [errors[e] EXCEPT !.msg = t], e \in kin)
WithMetadata(e, t) == With(e, [errors[e] EXCEPT !.meta = t], e \in kin)
WithReason(e, t) == With(e, [errors[e] EXCEPT !.reason = t], FALSE)

\* The cause, and its metadata, replace the ones of e: what e wrapped is gone.
WithError(e, cause) ==
  With(e, [errors[e] EXCEPT !.cause = cause, !.meta = errors[cause].meta],
       cause \in kin \/ (e \in kin /\ errors[e].reason = First.reason))

Wrap(e, t) ==
  /\ Room
  /\ Allocate(Fresh(errors[e].code, t, errors[e].msg, errors[e].meta, e, Frames["Wrap"]), e \in kin)

\* GRPCStatus, the wire, FromError: code, message, reason and metadata of the
\* outermost error arrive, and a stack of their own.
OverTheWire(e) ==
  /\ Room
  /\ Allocate(Fresh(errors[e].code, errors[e].reason, errors[e].msg, errors[e].meta, Nil,
                    Frames["FromError"]), FALSE)

ErrorsNext ==
  \E e \in Objects :
    \/ \E t \in Texts : WithMessage(e, t) \/ WithMetadata(e, t) \/ WithReason(e, t) \/ Wrap(e, t)
    \/ \E c \in Objects : WithError(e, c)
    \/ OverTheWire(e)

ErrorsSpec == ErrorsInit /\ [][ErrorsNext]_eVars

-----------------------------------------------------------------------------
\* What is read off an error.

\* errors.Is with Error.Is: some cause is the target or has its code and reason.
Is(e, target) ==
  \E x \in ToSet(Chain(e)) :
    x = target \/ (errors[x].code = errors[target].code /\ errors[x].reason = errors[target].reason)

\* processStack: the places of a stack whose lines are shown.
Visible(e) == {k \in DOMAIN errors[e].stack : errors[e].stack[k] \notin Hidden}
Lines(e) == {errors[e].stack[k] : k \in Visible(e)}

\* removeExtraStackLines: a line that an inner error has is removed, and one
\* that the error itself has further up.
removeExtraStackLines(chain, i) ==
  LET line == errors[chain[i]].stack
  IN {k \in Visible(chain[i]) :
        /\ \A j \in i + 1 .. Len(chain) : line[k] \notin Lines(chain[j])
        /\ \A n \in Visible(chain[i]) : n < k => line[n] # line[k]}

\* Stack: per error in its chain, the places of the stack that are printed.
Stack(chain) == [i \in DOMAIN chain |-> removeExtraStackLines(chain, i)]

-----------------------------------------------------------------------------

\* The places where the printed stack has line f.
Printed(chain, f) ==
  LET stack == Stack(chain)
  IN {p \in (DOMAIN chain) \X (UNION Range(stack)) :
        p[2] \in stack[p[1]] /\ errors[chain[p[1]]].stack[p[2]] = f}

\* A stack shows each line once, at the innermost error that has it.
ListedOnce(e) ==
  LET chain == Chain(e)
  IN \A i \in DOMAIN chain : \A f \in Lines(chain[i]) :
       \E p \in Printed(chain, f) : Printed(chain, f) = {p} /\ i <= p[1]

\* As long as no object has got a second With..., the sentinel is what New made
\* it, no error is among its own causes (Error, Is and Stack end) nor prints a
\* line of its stack twice, and every error derived from the sentinel is
\* recognised as it, unless WithReason renamed it or WithError replaced the
\* sentinel in its causes.
SoundUntilReused ==
  (\A e \in Objects : withs[e] <= 1) =>
    /\ [errors[Sentinel] EXCEPT !.clone = FALSE] = First
    /\ \A e \in Objects : ~Cyclic(e) /\ ListedOnce(e)
    /\ \A e \in kin : Is(e, Sentinel)

=============================================================================
