----------------------------- MODULE LogRecord -----------------------------
(***************************************************************************)
(* From a request to its line: the map of values (LogMap) that proxy and   *)
(* the case of the operation fill, what Util::log adds for the format, how *)
(* Format finds its specifiers and renders them, and the fixed buffer of   *)
(* the LogMessage.                                                         *)
(*                                                                         *)
(* A format is a sequence of tokens: specifiers, named without brackets,   *)
(* and other text.  A value is named for what it is: "gid" is the group of *)
(* the request's arguments, "tid" the thread's identity, "modnanoseconds"  *)
(* a time's fraction in nanoseconds, and so on, so that the right value of *)
(* a specifier has the specifier's name.  Paths are named as the handlers  *)
(* name their arguments: the path of a symlink is the text of the link.    *)
(* Every token and value takes one place of the buffer.                    *)
(***************************************************************************)
EXTENDS Integers, SequencesExt

CONSTANTS Texts,     \* what a format has between its specifiers
          Formats,   \* formats a filter or the default may have
          Ops,       \* operations asked for
          Capacity   \* k_logBufferCapacity

NL == "newline"

\* The keys of Format::formatstrings.
Specifiers ==
    {"action", "errno", "reqpid", "requid", "reqgid", "requmask", "cmdname", "uid", "gid",
     "username", "groupname", "abspath", "relpath", "mode", "rdev", "absfrom", "absto",
     "relfrom", "relto", "flags", "atime", "mtime", "offset", "size", "modseconds",
     "modmicroseconds", "acseconds", "acmicroseconds", "seconds", "microseconds", "tid",
     "pid", "ppid", "xattrname", "xattrvalue", "xattrlist"}

Tokens == Specifiers \cup Texts

\* Values that are no specifier's own.
Strays == {"buffer", "modnanoseconds", "acnanoseconds"}

ASSUME RecordAssumption ==
    /\ Capacity \in Nat \ {0}
    /\ {NL, "space", "brace", "pidis", "uidis", "bracket"} \subseteq Texts
    /\ Formats \subseteq Seq(Tokens)

VARIABLES
    pc,         \* "prologue", "handle", "log", "render", "send", "done"
    op, format, \* the request's operation; the format of the filter that wants it
    values,     \* LogMap::values
    fpit,       \* the last of the format's positions that render has passed
    prev,       \* prevconfigformatpos
    text,       \* result
    line        \* the LogData's buffer

vars == <<pc, op, format, values, fpit, prev, text, line>>

\* getDefaultFormatString
DefaultFormat ==
    <<"action", "space", "abspath", "brace", "errno", "pidis", "reqpid", "space", "cmdname",
      "uidis", "requid", "bracket">>

\* The constructor takes the default for an empty format.
Configured(cf) == IF cf = <<>> THEN DefaultFormat ELSE cf

NoValues == [s \in {} |-> NL]

Init ==
    /\ pc = "prologue" /\ op \in Ops /\ format \in {Configured(cf) : cf \in Formats}
    /\ values = NoValues
    /\ fpit = 0 /\ prev = 0 /\ text = <<>> /\ line = <<>>

-----------------------------------------------------------------------------
(* The values                                                              *)

With(map, key, value) ==
    [s \in DOMAIN map \cup {key} |-> IF s = key THEN value ELSE map[s]]

\* Mutant: operator<< assigns.
InsertOver(map, pair) == With(map, pair[1], pair[2])

\* operator<< is map::insert: a key that is there keeps its value.
Insert(map, pair) ==
    IF pair[1] \in DOMAIN map THEN map ELSE With(map, pair[1], pair[2])

InsertAll(map, pairs) ==
    LET after[i \in 0 .. Len(pairs)] == IF i = 0 THEN map ELSE Insert(after[i - 1], pairs[i])
    IN  after[Len(pairs)]

\* Keys that get the value of their name.
Own(keys) == [i \in 1 .. Len(keys) |-> <<keys[i], keys[i]>>]

TwoPathFields == Own(<<"relpath", "relfrom", "relto", "absfrom", "absto">>)
RangeFields   == Own(<<"size", "offset">>)

\* utime makes its timespecs of whole seconds: no fraction, in any unit.
UtimeFields == Own(<<"modseconds", "modmicroseconds", "acseconds", "acmicroseconds">>)

\* utimens files the tv_nsec it was given.
UtimensFields ==
    <<<<"modseconds", "modseconds">>, <<"modmicroseconds", "modnanoseconds">>,
      <<"acseconds", "acseconds">>, <<"acmicroseconds", "acnanoseconds">>>>

\* The whole of the caller's buffer, of which the operation has filled as much
\* as its result says, or nothing when it failed.
Buffer(key) == <<<<key, "buffer">>>>

\* What the operation's case puts into lm; chown names UID twice.
Fields(o) ==
    CASE o = "mknod"                                        -> Own(<<"mode", "rdev">>)
      [] o \in {"mkdir", "chmod"}                           -> Own(<<"mode">>)
      [] o \in {"symlink", "rename", "link"}                -> TwoPathFields
      [] o = "chown"                              -> <<<<"uid", "uid">>, <<"uid", "gid">>>>
      [] o \in {"ftruncate", "truncate"}                    -> Own(<<"size">>)
      [] o = "utime"                                        -> UtimeFields
      [] o = "utimens"                                      -> UtimensFields
      [] o \in {"create", "open", "flock"}                  -> Own(<<"flags">>)
      [] o \in {"read", "write", "read_buf", "write_buf"}   -> RangeFields
      [] o = "setxattr"              -> Own(<<"xattrname", "xattrvalue", "size", "flags">>)
      [] o = "getxattr"      -> Own(<<"xattrname", "size">>) \o Buffer("xattrvalue")
      [] o = "listxattr"                       -> Own(<<"size">>) \o Buffer("xattrlist")
      [] o = "fallocate"                                -> RangeFields \o Own(<<"mode">>)
      [] OTHER                                              -> <<>>

\* fuzzyShouldLog decides whether the record is begun; the operation runs and
\* is followed by its fields either way.
Prologue ==
    /\ pc = "prologue" /\ pc' = "handle"
    /\ \/ values' = InsertAll(values, Own(<<"action", "relpath">>))
       \/ UNCHANGED values
    /\ UNCHANGED <<op, format, fpit, prev, text, line>>

Handle ==
    /\ pc = "handle" /\ pc' = "log"
    /\ values' = InsertAll(values, Fields(op))
    /\ UNCHANGED <<op, format, fpit, prev, text, line>>

Has(s) == Contains(format, s)

\* Added when the format has them and no case has set them.
If(key) == IF Has(key) THEN <<key>> ELSE <<>>
Asked   == If("abspath") \o If("cmdname") \o If("reqpid") \o If("requid") \o If("reqgid")
             \o If("requmask")
Clock == IF Has("seconds") \/ Has("microseconds") THEN <<"seconds", "microseconds">> ELSE <<>>
\* The thread's identity is stored as the request's pid.
Thread == IF Has("tid") THEN <<<<"reqpid", "tid">>>> ELSE <<>>

\* getusername and getgroupname of a UID and a GID field.
NameOf(value) == IF value = "uid" THEN "username" ELSE "groupname"
UserNames(map) ==
    (IF "uid" \in DOMAIN map THEN <<<<"username", NameOf(map["uid"])>>>> ELSE <<>>)
       \o (IF "gid" \in DOMAIN map THEN <<<<"groupname", NameOf(map["gid"])>>>> ELSE <<>>)

Complete(map) ==
    LET asked == InsertAll(map, <<<<"errno", "errno">>>> \o Thread \o Own(Asked \o Clock))
    IN  InsertAll(asked, UserNames(asked))

\* Mutant: a record that was not begun is logged.
LogUnchecked ==
    /\ pc = "log"
    /\ values' = Complete(values)
    /\ pc' \in {"render", "done"}
    /\ UNCHANGED <<op, format, fpit, prev, text, line>>

\* Util::log: without ACTION or RELPATH, or when no filter wants the line,
\* there is none.
Log ==
    /\ pc = "log"
    /\ \/ /\ {"action", "relpath"} \subseteq DOMAIN values
          /\ values' = Complete(values)
          /\ pc' = "render"
       \/ /\ pc' = "done" /\ UNCHANGED values
    /\ UNCHANGED <<op, format, fpit, prev, text, line>>

-----------------------------------------------------------------------------
(* Format and the message                                                  *)

\* Mutant: find the last place of a specifier.
FoundLast(i) == \A j \in i + 1 .. Len(format) : format[j] # format[i]

\* The constructor finds a specifier's first place.
Found(i) == \A j \in 1 .. i - 1 : format[j] # format[i]

\* The keys of positionsformat, and those that its iterator has still to reach.
Positions == {i \in 1 .. Len(format) : format[i] \in Specifiers /\ Found(i)}
Ahead     == {i \in Positions : i > fpit}

\* One round of render's loop, at the next key: a specifier without a value is
\* passed over and stays in the text.
Render ==
    /\ pc = "render"
    /\ \E at \in Ahead :
         /\ \A i \in Ahead : at <= i
         /\ fpit' = at
         /\ IF format[at] \in DOMAIN values
            THEN /\ text' = text \o SubSeq(format, prev + 1, at - 1) \o <<values[format[at]]>>
                 /\ prev' = at
            ELSE UNCHANGED <<text, prev>>
    /\ UNCHANGED <<pc, op, format, values, line>>

\* The rest of the format, after the last specifier.
Rendered ==
    /\ pc = "render" /\ Ahead = {}
    /\ text' = text \o SubSeq(format, prev + 1, Len(format))
    /\ pc' = "send"
    /\ UNCHANGED <<op, format, values, fpit, prev, line>>

\* `<< message << endl` into the fixed buffer, which takes what it has room for.
Streamed ==
    IF Len(text) < Capacity THEN Append(text, NL) ELSE SubSeq(text, 1, Capacity)

\* Mutant: the newline is put behind a full buffer.
FlushWithoutRoom(buffer) == IF Last(buffer) = NL THEN buffer ELSE Append(buffer, NL)

\* LogMessage::Flush: a newline at the end, in place of the last character if
\* the buffer is full.
Flush(buffer) ==
    IF Last(buffer) = NL THEN buffer
    ELSE Append(IF Len(buffer) = Capacity THEN Front(buffer) ELSE buffer, NL)

Send ==
    /\ pc = "send" /\ pc' = "done"
    /\ line' = Flush(Streamed)
    /\ UNCHANGED <<op, format, values, fpit, prev, text>>

Next == Prologue \/ Handle \/ Log \/ Render \/ Rendered \/ Send

Spec == Init /\ [][Next]_vars

-----------------------------------------------------------------------------
(* Properties.                                                             *)

\* A record that is rendered was begun.
TypeOK ==
    /\ pc \in {"prologue", "handle", "log", "render", "send", "done"}
    /\ op \in Ops /\ format \in Seq(Tokens) \ {<<>>}
    /\ DOMAIN values \subseteq Specifiers
    /\ \A s \in DOMAIN values : values[s] \in Specifiers \cup Strays
    /\ fpit \in {0} \cup Positions /\ prev \in {0} \cup Positions /\ prev <= fpit
    /\ pc \in {"render", "send"} => {"action", "relpath", "errno"} \subseteq DOMAIN values
    /\ line # <<>> => pc = "done"

\* What is filed under a specifier: its own value, except that an extended
\* attribute's buffer is filed whole, that a format with the thread's identity
\* gets it for the process's, and that utimens files nanoseconds as microseconds,
\* although its own system call gets a thousandth of them.
Due(s) ==
    CASE op \in {"getxattr", "listxattr"} /\ s \in {"xattrvalue", "xattrlist"} -> "buffer"
      [] s = "reqpid" /\ Has("tid")                            -> "tid"
      [] op = "utimens" /\ s = "modmicroseconds"               -> "modnanoseconds"
      [] op = "utimens" /\ s = "acmicroseconds"                -> "acnanoseconds"
      [] OTHER                                                 -> s

\* Every value of a record is that of the specifier it is filed under, whatever
\* a case inserts twice and whatever Util::log adds, with exactly the three
\* exceptions of Due.
FieldIsItsOwn == \A s \in DOMAIN values : values[s] = Due(s)

\* render answers, place by place, the value where the format names a specifier
\* for the first time and there is a value, and the format's own text
\* everywhere else: neither repeated nor unfilled specifiers shift or lose text.
RenderExact ==
    pc = "send" =>
        /\ Len(text) = Len(format)
        /\ \A i \in 1 .. Len(format) :
             LET first == i = CHOOSE j \in 1 .. Len(format) :
                                /\ format[j] = format[i]
                                /\ \A k \in 1 .. j - 1 : format[k] # format[i]
             IN  text[i] = IF first /\ format[i] \in DOMAIN values
                           THEN values[format[i]] ELSE format[i]

\* The line is the text, or as much of it as leaves room for the newline it
\* always ends in.
LineWhole ==
    line # <<>> =>
        /\ Len(line) <= Capacity /\ Last(line) = NL
        /\ IsPrefix(Front(line), text)
        /\ Len(line) = (IF Len(text) < Capacity THEN Len(text) + 1 ELSE Capacity)
=============================================================================
