-------------------------------- MODULE Form --------------------------------
(***************************************************************************)
(* encoding/form: the decoder of url-encoded forms into protobuf messages.  *)
(* parse goes over the keys of the form in the order of a Go map, which is  *)
(* any order, follows each key's path through the message's descriptors,    *)
(* parses the values by the kind of the field and sets it; the first error  *)
(* ends it.  A segment of a path is a name, with brackets or without; a     *)
(* value is a token that stands for its text; a message is a function from  *)
(* the paths that are set (lists as a whole, maps entry by entry).          *)
(***************************************************************************)
EXTENDS Integers, Sequences, SequencesExt

CONSTANTS
  Schema,     \* per message type: its fields
  Forms       \* the forms: functions from keys (paths) to sequences of tokens

\* No field: what the lookups in the descriptors return as nil.
NoField == [name |-> "", json |-> "", kind |-> "", card |-> "", type |-> "", oneof |-> "", key |-> ""]

VARIABLES
  form,       \* url.Values
  keys,       \* the keys that parse has not come to
  message,    \* the message so far
  decoded     \* "parsing", "ok", "error" or "panic"

fVars == <<form, keys, message, decoded>>

Empty == <<>>

-----------------------------------------------------------------------------
\* Values

\* The tokens that the parsers accept, by kind: 1, -1, a number beyond 32 bits,
\* a word, the null of JSON, a word of the enum, a time, a duration, an object,
\* standard and url-safe base64.
Tokens == {"", "1", "-1", "2^33", "x", "null", "RED", "2006-01-02T15:04:05Z", "1s", "{}", "YQ==", "_w=="}

Accepts ==
  [bool |-> {"1"}, enum |-> {"1", "RED"},
   int32 |-> {"1", "-1"}, int64 |-> {"1", "-1", "2^33"},
   uint32 |-> {"1"}, uint64 |-> {"1", "2^33"},
   float |-> {"1", "-1", "2^33"}, double |-> {"1", "-1", "2^33"},
   string |-> Tokens,
   bytes |-> {"", "null", "YQ=="}]

\* The message types that can be written as one value; null gives Timestamp and
\* Duration a nil message, on which parseMessage then calls ProtoReflect.
MessageAccepts ==
  [Timestamp |-> {"null", "2006-01-02T15:04:05Z"}, Duration |-> {"null", "1s"},
   DoubleValue |-> Accepts.double, FloatValue |-> Accepts.float,
   Int64Value |-> Accepts.int64, Int32Value |-> Accepts.int32,
   UInt64Value |-> Accepts.uint64, UInt32Value |-> Accepts.uint32,
   BoolValue |-> Accepts.bool, StringValue |-> Accepts.string,
   BytesValue |-> Accepts.bytes \union {"_w=="}, FieldMask |-> Accepts.string,
   Value |-> Accepts.string, Struct |-> {"{}"}]

parseMessage(type, token) ==
  IF type \notin DOMAIN MessageAccepts \/ token \notin MessageAccepts[type] THEN "error"
  ELSE IF type \in {"Timestamp", "Duration"} /\ token = "null" THEN "panic"
  ELSE "ok"

parseField(kind, type, token) ==
  IF kind = "message" THEN parseMessage(type, token)
  ELSE IF token \in Accepts[kind] THEN "ok" ELSE "error"

-----------------------------------------------------------------------------
\* Fields

getDescriptorByField(type, name) ==
  LET named == {f \in Schema[type] : f.name = name}
      json == {f \in Schema[type] : f.json = name}
  IN IF named # {} THEN CHOOSE f \in named : TRUE
     ELSE IF json # {} THEN CHOOSE f \in json : TRUE ELSE NoField

getFieldDescriptor(type, seg) ==
  LET fd == IF seg.brackets THEN NoField ELSE getDescriptorByField(type, seg.name)
  IN IF fd # NoField THEN fd
     ELSE IF type = "Struct" THEN CHOOSE f \in Schema[type] : TRUE
     ELSE IF seg.brackets THEN getDescriptorByField(type, seg.name)
     ELSE NoField

Ok(m) == [message |-> m, res |-> "ok"]
Fail(m, res) == [message |-> m, res |-> res]

\* The members of fd's oneof that are set in the message at path at.
WhichOneof(m, at, type, fd) ==
  {f \in Schema[type] : f.oneof = fd.oneof /\ Append(at, f.name) \in DOMAIN m}

\* Sets path p; the other members of its oneof, with all below them, are cleared.
Set(m, at, type, fd, value) ==
  LET cleared == {Append(at, f.name) : f \in IF fd.oneof = "" THEN {} ELSE WhichOneof(m, at, type, fd) \ {fd}}
      kept == {q \in DOMAIN m : \A c \in cleared : ~IsPrefix(c, q)}
      p == Append(at, fd.name)
  IN [q \in kept \union {p} |-> IF q = p THEN value ELSE m[q]]

\* v.Mutable(fd) of a message field.
Mutable(m, at, type, fd) ==
  IF Append(at, fd.name) \in DOMAIN m THEN m ELSE Set(m, at, type, fd, <<"message">>)

paddingField(m, at, type, fd, token) ==
  LET r == parseField(fd.kind, fd.type, token) IN
  IF token = "" THEN Ok(m)
  ELSE IF r # "ok" THEN Fail(m, r)
  ELSE Ok(LET p == Append(at, fd.name)
              bare == [q \in {q \in DOMAIN m : ~IsStrictPrefix(p, q)} |-> m[q]]
          IN Set(bare, at, type, fd, <<token>>))

\* The values before the first that does not parse are appended.
paddingRepeatedField(m, at, type, fd, tokens) ==
  LET res(i) == parseField(fd.kind, fd.type, tokens[i])
      bad == {i \in 1 .. Len(tokens) : res(i) # "ok"}
      first == CHOOSE i \in bad : \A j \in bad : i <= j
      n == IF bad = {} THEN Len(tokens) ELSE first - 1
      p == Append(at, fd.name)
      old == IF p \in DOMAIN m THEN m[p] ELSE <<>>
      grown == IF n = 0 THEN m ELSE Set(m, at, type, fd, old \o SubSeq(tokens, 1, n))
  IN IF bad = {} THEN Ok(grown) ELSE Fail(grown, res(first))

\* A segment parsed as a key of the given kind: 1 and 01 are one number.
MapKey(kind, seg) == IF kind # "string" /\ seg.name = "01" THEN [seg EXCEPT !.name = "1"] ELSE seg

\* The entry's key is the segment, if the kind of the map's keys takes it, its
\* value the last token.
paddingMapField(m, at, fd, seg, tokens) ==
  LET key == MapKey(fd.key, seg)
      r == parseField(fd.kind, fd.type, Last(tokens))
      p == at \o <<fd.name, key>>
  IN IF fd.key # "string" /\ (seg.brackets \/ key.name \notin Accepts[fd.key]) THEN Fail(m, "error")
     ELSE IF r # "ok" THEN Fail(m, r)
     ELSE Ok([q \in DOMAIN m \union {p} |-> IF q = p THEN <<Last(tokens)>> ELSE m[q]])

\* Fault: the oneof is not looked at.
paddingLastBlind(m, at, type, fd, paths, tokens) ==
  IF fd.card = "list" THEN paddingRepeatedField(m, at, type, fd, tokens)
  ELSE IF fd.card = "map" THEN paddingMapField(m, at, fd, Last(paths), tokens)
  ELSE IF Len(tokens) > 1 THEN Fail(m, "error")
  ELSE paddingField(m, at, type, fd, tokens[1])

\* paddingFieldValues, at the last segment of the path.
paddingLast(m, at, type, fd, paths, tokens) ==
  IF fd.oneof # "" /\ WhichOneof(m, at, type, fd) # {} THEN Fail(m, "error")
  ELSE IF fd.card = "list" THEN paddingRepeatedField(m, at, type, fd, tokens)
  ELSE IF fd.card = "map" THEN paddingMapField(m, at, fd, Last(paths), tokens)
  ELSE IF Len(tokens) > 1 THEN Fail(m, "error")
  ELSE paddingField(m, at, type, fd, tokens[1])

\* paddingFieldValues, from segment i in the message of the given type at path
\* at.  A map in the middle of a path takes the second segment as its key.
RECURSIVE paddingFrom(_, _, _, _, _, _)
paddingFrom(m, at, type, i, paths, tokens) ==
  LET fd == getFieldDescriptor(type, paths[i]) IN
  IF fd = NoField THEN Ok(m)
  ELSE IF i = Len(paths) THEN paddingLast(m, at, type, fd, paths, tokens)
  ELSE IF fd.card = "map" THEN paddingMapField(m, at, fd, paths[2], tokens)
  ELSE IF fd.kind # "message" \/ fd.card = "list" THEN Fail(m, "error")
  ELSE paddingFrom(Mutable(m, at, type, fd), Append(at, fd.name), fd.type, i + 1, paths, tokens)

paddingFieldValues(m, paths, tokens) ==
  IF paths = <<>> \/ tokens = <<>> THEN Fail(m, "error")
  ELSE paddingFrom(m, <<>>, "Req", 1, paths, tokens)

-----------------------------------------------------------------------------

Init ==
  /\ form \in Forms
  /\ keys = DOMAIN form
  /\ message = Empty
  /\ decoded = "parsing"

\* The next key of the map, whichever it is.
ParseKey(key) ==
  /\ decoded = "parsing" /\ key \in keys
  /\ LET r == paddingFieldValues(message, key, form[key]) IN
       /\ message' = r.message
       /\ decoded' = IF r.res # "ok" THEN r.res ELSE "parsing"
  /\ keys' = keys \ {key}
  /\ UNCHANGED form

ParseReturn ==
  /\ decoded = "parsing" /\ keys = {}
  /\ decoded' = "ok"
  /\ UNCHANGED <<form, keys, message>>

Next == ParseReturn \/ \E key \in keys : ParseKey(key)

-----------------------------------------------------------------------------

\* What a key does to an empty message.
Alone(key) == paddingFieldValues(Empty, key, form[key])

\* What it sets there, without the messages that it goes through.
Leaves(key) == {p \in DOMAIN Alone(key).message : Alone(key).message[p] # <<"message">>}

\* Two keys that say something about the same thing: a field under both of its
\* names, a message and a field of it, one oneof on different levels, a key of a
\* map in two spellings, or two entries of a map in a nested message (which get
\* the same key).
Collide(k, l) ==
  \/ \E p \in Leaves(k), q \in Leaves(l) : IsPrefix(p, q) \/ IsPrefix(q, p)
  \/ \E p \in DOMAIN Alone(k).message : \E q \in DOMAIN Alone(l).message :
       /\ Len(p) = 1 /\ Len(q) = 1 /\ p # q
       /\ \E f \in Schema["Req"], g \in Schema["Req"] :
            /\ f.name = p[1] /\ g.name = q[1] /\ f.oneof = g.oneof /\ f.oneof # ""
            /\ p \notin Leaves(k) \/ q \notin Leaves(l)

\* Whatever the order of the keys, a form whose keys do not collide decodes to
\* the same message, which holds what each key says alone; in particular two
\* members of a oneof are refused in either order, and nothing is overwritten.
OrderIndependent ==
  (decoded = "ok" /\ \A k, l \in DOMAIN form : k # l => ~Collide(k, l)) =>
    /\ DOMAIN message = UNION {DOMAIN Alone(k).message : k \in DOMAIN form}
    /\ \A k \in DOMAIN form : \A p \in DOMAIN Alone(k).message : message[p] = Alone(k).message[p]

=============================================================================
