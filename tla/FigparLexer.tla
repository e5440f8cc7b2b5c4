---- MODULE FigparLexer ----
\* parse_config() of libfigpar: directives and values are found in a file by
\* reading it one character at a time, going back to take what was measured.
\* Letters stand for characters that mean nothing to the parser; a blank is any
\* white space but the end of a line.
EXTENDS Integers, FiniteSets, SequencesExt

CONSTANTS
  IsFile(_),       \* the files parsed: sequences of characters
  Characters, MaxLength,
  FlagSets,        \* processing options: subsets of "=", ";", "require" and "strict"
  Tables           \* a sequence of the directives that have an action, and
                   \* whether there is a function for the others

ASSUME TablesAssumption ==
  \A t \in Tables : t[1] \in Seq(Range(t[1])) /\ t[2] \in BOOLEAN

VARIABLES
  file, flags, options, unknown,
  in,        \* the offset of the file, the buffer p and the last result of read(2)
  pc,        \* what the parser is doing, or how it returned
  comment, have, line, cur, quote,
  dir, dsize,    \* where the directive is in the file; what is allocated for it
  val, vsize,    \* the same of the value, its text, and its greatest length
  calls          \* the calls made

vars == <<file, flags, options, unknown, in, pc, comment, have, line, cur, quote,
          dir, dsize, val, vsize, calls>>
input == <<file, flags, options, unknown>>

Blank == {" ", "\n"}
Null == [from |-> 0, to |-> 0, text |-> <<>>, longest |-> 0, null |-> TRUE]
Empty(at) == [from |-> at, to |-> at, text |-> <<>>, longest |-> 0, null |-> FALSE]
Anyone == <<"*">>    \* the pattern of an option that matches every directive
Larger(a, b) == IF a > b THEN a ELSE b
Least(S) == CHOOSE k \in S : \A j \in S : k <= j

-----------------------------------------------------------------------------
\* read(fd, p, 1): at the end of the file p keeps what it held.
\* Mutant: the end of the file is taken for success.
GetForever(i) ==
  IF i.off < Len(file) THEN [off |-> i.off + 1, p |-> file[i.off + 1], r |-> 1] ELSE i
Get(i) ==
  IF i.off < Len(file) THEN [off |-> i.off + 1, p |-> file[i.off + 1], r |-> 1]
  ELSE [i EXCEPT !.r = 0]

PastBlanks(i) ==
  LET others == {k \in i.off..Len(file)-1 : file[k+1] # " "}
  IN IF i.r = 0 \/ i.p # " " THEN i
     ELSE IF others = {} THEN [off |-> Len(file), p |-> " ", r |-> 0]
     ELSE Get([i EXCEPT !.off = Least(others)])

\* strcount() of escaped quotes, and replaceall() of them by a backslash and
\* an escaped quote: the first sequence is found wherever it is, escaped or not.
EscapedQuotes(text) ==
  Cardinality({i \in 1..Len(text)-1 : text[i] = "\\" /\ text[i+1] = "\""})
QuotesKept(text) ==
  FoldLeft(LAMBDA out, c : IF c = "\"" /\ out # <<>> /\ Last(out) = "\\"
                           THEN out \o <<"\\", c>> ELSE Append(out, c), <<>>, text)
\* replaceall() of escaped ends of line by nothing.
Joined(text) ==
  FoldLeft(LAMBDA out, c : IF c = "\n" /\ out # <<>> /\ Last(out) = "\\"
                           THEN Front(out) ELSE Append(out, c), <<>>, text)
\* strexpand(): a backslash and what follows it become one character.
Expanded(text) ==
  FoldLeft(LAMBDA s, c : IF s.escape THEN [out |-> Append(s.out, c), escape |-> FALSE]
                         ELSE IF c = "\\" THEN [s EXCEPT !.escape = TRUE]
                         ELSE [s EXCEPT !.out = Append(@, c)],
           [out |-> <<>>, escape |-> FALSE], text).out
Trimmed(text) ==
  LET kept == {i \in 1..Len(text) : text[i] \notin Blank}
  IN IF kept = {} THEN <<>> ELSE SubSeq(text, 1, CHOOSE i \in kept : \A j \in kept : j <= i)

-----------------------------------------------------------------------------
Init ==
  /\ file \in {f \in UNION {[1..n -> Characters] : n \in 0..MaxLength} : IsFile(f)}
  /\ flags \in FlagSets /\ \E t \in Tables : options = t[1] /\ unknown = t[2]
  /\ in = [off |-> 0, p |-> " ", r |-> 1]
  /\ pc = IF options = <<>> /\ ~unknown THEN "refused" ELSE "begin"
  /\ comment = FALSE /\ have = FALSE /\ line = 1 /\ cur = 0 /\ quote = FALSE
  /\ dir = [from |-> 0, to |-> 0] /\ dsize = 0
  /\ val = Null /\ vsize = 0
  /\ calls = <<>>

\* The outer loop.
Begin ==
  /\ pc = "begin"
  /\ IF in.r = 0 THEN pc' = "done" /\ UNCHANGED in ELSE pc' = "skip" /\ in' = Get(in)
  /\ UNCHANGED <<input, comment, have, line, cur, quote, dir, dsize, val, vsize, calls>>

Skipped(c) == c \in Blank \/ c = "#" \/ comment \/ (";" \in flags /\ c = ";")
Skip ==
  /\ pc = "skip" /\ in.r # 0 /\ Skipped(in.p)
  /\ comment' = (in.p = "#" \/ (comment /\ in.p # "\n"))
  /\ line' = IF in.p = "\n" THEN line + 1 ELSE line
  /\ in' = Get(in)
  /\ UNCHANGED <<input, pc, have, cur, quote, dir, dsize, val, vsize, calls>>
EndOfFile ==
  /\ pc = "skip" /\ in.r = 0
  /\ pc' = "done"
  /\ UNCHANGED <<input, in, comment, have, line, cur, quote, dir, dsize, val, vsize, calls>>

\* The directive is measured, and read; an equals sign that ended it is passed.
\* Nothing has been allocated for one that is empty when it is the first.
EndsDirective(c) ==
  c \in Blank \/ ("=" \in flags /\ c = "=") \/ (";" \in flags /\ c = ";")
Directive ==
  LET from == in.off - 1
      to == Least({k \in from..Len(file) : k < Len(file) => EndsDirective(file[k+1])})
      equals == to < Len(file) /\ "=" \in flags /\ file[to+1] = "="
      after == [off |-> to, p |-> file[IF to < Len(file) THEN to + 1 ELSE to],
                r |-> IF to > from THEN 1 ELSE 0]
      past == Get([after EXCEPT !.off = to + 1])
  IN /\ pc = "skip" /\ in.r # 0 /\ ~Skipped(in.p)
     /\ dir' = [from |-> from, to |-> to]
     /\ dsize' = Larger(dsize, to - from)
     /\ have' = (have \/ equals)
     /\ in' = IF ~equals THEN after
              ELSE IF "strict" \in flags /\ past.p \in Blank THEN [past EXCEPT !.p = "\n"]
              ELSE past
     /\ pc' = IF dsize' = 0 THEN "crashed" ELSE "tovalue"
     /\ UNCHANGED <<input, comment, line, cur, quote, val, vsize, calls>>

\* On to what may be the value, over an equals sign if one is optional.
NoValueAt(i) == i.r = 0 \/ i.p \in {"\n", "#"} \/ (";" \in flags /\ i.p = ";")
ToValue ==
  LET stays == (";" \in flags /\ in.p = ";") \/ ("strict" \in flags /\ in.p = "=")
      near == IF stays THEN in ELSE PastBlanks(in)
      equals == near.r # 0 /\ "=" \in flags /\ near.p = "=" /\ "strict" \notin flags
      at == IF equals THEN PastBlanks(Get(near)) ELSE near
  IN /\ pc = "tovalue"
     /\ have' = (have \/ equals)
     /\ in' = at
     /\ IF NoValueAt(at)
        THEN val' = Empty(at.off) /\ pc' = "call" /\ UNCHANGED <<cur, quote>>
        ELSE pc' = "value" /\ cur' = at.off - 1 /\ quote' = FALSE /\ UNCHANGED val
     /\ UNCHANGED <<input, comment, line, dir, dsize, vsize, calls>>

-----------------------------------------------------------------------------
\* The end of the value is looked for.  What may end it is looked at again with
\* the backslashes before it; counting them from the start of the file on, when
\* it begins with them, the counting never ends: going back fails.
Key(c) == c \in {"\"", "#", "\n"} \/ (";" \in flags /\ c = ";")
Run == Least({k \in 0..in.off-1 : \A j \in k+1..in.off-1 : file[j] = "\\"})
Backslashes == in.off - 1 - Run
Escaped == Backslashes % 2 = 1
Value ==
  /\ pc = "value" /\ in.r # 0
  /\ Key(in.p) => ~(Run = 0 /\ Backslashes >= 2)
  /\ quote' = IF in.p = "\"" /\ ~Escaped THEN ~quote ELSE quote
  /\ line' = IF in.p = "\n" /\ Escaped THEN line + 1 ELSE line
  /\ pc' = IF Key(in.p) /\ ~Escaped /\ (in.p = "\n" \/ (in.p \in {"#", ";"} /\ ~quote))
           THEN "cut" ELSE "value"
  /\ in' = Get(in)
  /\ UNCHANGED <<input, comment, have, cur, dir, dsize, val, vsize, calls>>
ValueAtEnd ==
  /\ pc = "value" /\ in.r = 0
  /\ pc' = "cut"
  /\ UNCHANGED <<input, in, comment, have, line, cur, quote, dir, dsize, val, vsize, calls>>
CountsForever ==
  /\ pc = "value" /\ in.r # 0 /\ Key(in.p) /\ Run = 0 /\ Backslashes >= 2
  /\ UNCHANGED vars

\* The length of the value.  Mutant: an end key at the end of the file, too, is
\* thought to have been followed by a character.
LengthShort == in.off - 2 - cur
Length == in.off - 1 - cur - IF in.r # 0 THEN 1 ELSE 0

\* The memory for the value.  Mutant: without the room for what replaceall() adds.
RoomPlain(n, x) == Larger(vsize, n)
Room(n, x) == Larger(Larger(vsize, n), IF x = 0 THEN 0 ELSE n + x)

After(n) == cur + n

Cut ==
  LET text == Trimmed(SubSeq(file, cur + 1, cur + Length))
      x == EscapedQuotes(text)
  IN /\ pc = "cut"
     /\ IF val.null /\ Length = 0 THEN pc' = "crashed" /\ UNCHANGED <<in, val, vsize>>
        ELSE /\ pc' = "call"
             /\ vsize' = Room(Length, x)
             /\ val' = [from |-> cur, to |-> cur + Length, longest |-> Len(QuotesKept(text)),
                        text |-> Expanded(Joined(QuotesKept(text))), null |-> FALSE]
             /\ in' = [in EXCEPT !.off = After(Length), !.r = IF Length > 0 THEN 1 ELSE 0]
     /\ UNCHANGED <<input, comment, have, line, cur, quote, dir, dsize, calls>>

-----------------------------------------------------------------------------
\* The actions of every option that matches, or the function for unknown ones;
\* the first answer other than zero is the parser's.
Name == SubSeq(file, dir.from + 1, dir.to)
Matching == FoldLeftDomain(LAMBDA found, i : IF options[i] \in {Anyone, Name}
                                              THEN Append(found, i) ELSE found, <<>>, options)
Handlers == IF Matching # <<>> THEN Matching ELSE IF unknown THEN <<0>> ELSE <<>>
CallOf(who) == [who |-> who, line |-> line, dir |-> dir, val |-> val]
Call ==
  /\ pc = "call"
  /\ "require" \in flags => have
  /\ have' = FALSE
  /\ \/ /\ calls' = calls \o [i \in DOMAIN Handlers |-> CallOf(Handlers[i])]
        /\ pc' = "begin"
     \/ \E last \in DOMAIN Handlers :
          /\ calls' = calls \o [i \in 1..last |-> CallOf(Handlers[i])]
          /\ pc' = "error"
  /\ UNCHANGED <<input, in, comment, line, cur, quote, dir, dsize, val, vsize>>
NoAssignment ==
  /\ pc = "call" /\ "require" \in flags /\ ~have
  /\ pc' = "refused"
  /\ UNCHANGED <<input, in, comment, have, line, cur, quote, dir, dsize, val, vsize, calls>>

Returned == {"done", "error", "refused"}
Finished == pc \in Returned \cup {"crashed"} /\ UNCHANGED vars

Parse ==
  \/ Begin \/ Skip \/ EndOfFile \/ Directive \/ ToValue
  \/ Value \/ ValueAtEnd \/ Cut \/ Call \/ NoAssignment
Next == Parse \/ CountsForever \/ Finished
Spec == Init /\ [][Next]_vars
FairSpec == Spec /\ WF_vars(Parse)    \* the parser is not stopped

-----------------------------------------------------------------------------
\* Files as programs write them: the last line is ended, and no equals sign
\* comes before the first name.
Ended == file = <<>> \/ Last(file) = "\n"
NameFirst ==
  \A k \in DOMAIN file : file[k] = "=" =>
    \E j \in 1..k-1 : file[j] = "a" /\ \A h \in 1..j : file[h] # "#"
Ordinary == Ended /\ NameFirst

\* Nothing of a file that is read to its end gets lost: a letter is in a
\* directive, in a value or after a hash on its line, when every directive has
\* its function.
Inside(k, span) == span.from < k /\ k <= span.to
NothingLost ==
  pc = "done" /\ unknown /\ Ordinary => \A k \in DOMAIN file :
    file[k] = "a" =>
      \/ \E i \in DOMAIN calls : Inside(k, calls[i].dir) \/ Inside(k, calls[i].val)
      \/ \E h \in 1..k : file[h] = "#" /\ \A j \in h..k : file[j] # "\n"

\* What is allocated for directive and value, each used again for the next one,
\* holds them, and the value with what is put before its escaped quotes.
FitsBuffers ==
  pc = "call" => dir.to - dir.from <= dsize /\ val.longest <= vsize

\* Every such file is parsed to an end, whatever is quoted and escaped in it.
Terminates == Ordinary => <>(pc \in Returned)
====
