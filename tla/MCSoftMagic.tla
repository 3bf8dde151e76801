---------------------------- MODULE MCSoftMagic ----------------------------
(* Small databases and settings for SoftMagic. *)
EXTENDS SoftMagic

Plain == [continue |-> FALSE, nodesc |-> FALSE, annotate |-> FALSE]
Continue == [Plain EXCEPT !.continue = TRUE]
Mime == [continue |-> FALSE, nodesc |-> TRUE, annotate |-> TRUE]
MimeContinue == [Mime EXCEPT !.continue = TRUE]

R(level, type) ==
  [level |-> level, type |-> type, selected |-> level = 0, negative |-> FALSE,
   add |-> FALSE, inverted |-> FALSE, cond |-> "none", desc |-> TRUE,
   annotated |-> FALSE, name |-> ""]
Cond(level, cond) == [R(level, "test") EXCEPT !.cond = cond]
Use(level, name) == [R(level, "use") EXCEPT !.name = name, !.desc = FALSE]
Quiet(r) == [r EXCEPT !.desc = FALSE]
Neg(r) == [r EXCEPT !.negative = TRUE]
Inv(r) == [r EXCEPT !.inverted = TRUE]
Mimed(r) == [r EXCEPT !.annotated = TRUE]
One(rules) == [lists |-> <<rules>>, names |-> << >>]

\* Every group of up to four continuations of the given kinds under one test,
\* followed by another test.
Kinds == {R(1, "test"), R(2, "test"), R(1, "default"), R(1, "clear"), R(2, "default")}
Groups(kinds, n) ==
  {One(<<R(0, "test")>> \o body \o <<R(0, "test")>>) : body \in [1..n -> kinds]}
Branches == {R(1, "test"), Cond(1, "if"), Cond(1, "elif"), Cond(1, "else"), R(1, "default")}
GroupDatabases == Groups(Kinds, 4) \cup Groups(Branches, 4)

\* Lists that call one another: a named list that calls itself, two that call
\* each other, a missing name, an indirect rule with a nested database.
Name(rules) == <<[R(0, "name") EXCEPT !.desc = FALSE, !.selected = FALSE]>> \o rules
CallDatabases ==
  { [lists |-> <<<<R(0, "test"), R(1, "test"), Use(1, "a"), R(2, "test"), R(1, "default")>>>>,
     names |-> [a |-> Name(<<R(1, "test"), Use(2, "a"), R(1, "default")>>)]],
    [lists |-> <<<<Quiet(R(0, "test")), Use(1, "a"), R(1, "test")>>, <<R(0, "test")>>>>,
     names |-> [a |-> Name(<<Use(1, "b"), R(1, "test")>>),
                b |-> Name(<<Use(1, "a"), Quiet(R(1, "test"))>>)]],
    [lists |-> <<<<Use(0, "a"), R(1, "test"), Use(1, "none")>>>>,
     names |-> [a |-> Name(<<R(1, "test"), R(2, "test")>>)]] }

Indirect(level) == R(level, "indirect")
IndirectDatabases ==
  { [lists |-> <<<<Quiet(R(0, "test")), Indirect(1), R(2, "test"), R(1, "default")>>,
                 <<Mimed(R(0, "test")), R(1, "test")>>>>,
     names |-> << >>],
    [lists |-> <<<<Indirect(0), R(1, "test")>>, <<Quiet(R(0, "test")), Mimed(R(1, "test"))>>>>,
     names |-> << >>],
    [lists |-> <<<<R(0, "test"), Quiet(Indirect(0)), R(1, "test")>>>>, names |-> << >>],
    [lists |-> <<<<R(0, "test"), Use(1, "a"), Indirect(1)>>, <<Mimed(R(0, "test"))>>>>,
     names |-> [a |-> Name(<<Mimed(R(1, "test")), R(1, "test")>>)]] }

\* Rules that look from the end of the input, and rules the filters reject.
NegativeDatabases ==
  { One(<<R(0, "test"), Neg(R(1, "test")), Neg([R(2, "test") EXCEPT !.add = TRUE]),
          Neg(R(0, "test")), Inv(R(1, "test")), Inv(R(0, "test"))>>),
    [lists |-> <<<<[R(0, "test") EXCEPT !.selected = FALSE], R(1, "test"),
                   R(0, "test"), Use(1, "a"), Inv(Use(1, "a")), R(1, "default"),
                   R(0, "default")>>>>,
     names |-> [a |-> Name(<<Neg(R(1, "test")), R(1, "test")>>)]] }

InterplayDatabases == CallDatabases \cup IndirectDatabases \cup NegativeDatabases

Encoding == [Plain EXCEPT !.nodesc = TRUE]
Buffers == {"mem", "file", "device"}

Calls(dbs, flagss, bufs) == [db : dbs, flags : flagss, buf : bufs]
AllSetups ==
  Calls(GroupDatabases, {Plain}, {"mem"})
  \cup Calls(InterplayDatabases, {Plain, Continue, Mime, MimeContinue, Encoding}, Buffers)
PlainSetups == Calls(NegativeDatabases, {Plain}, Buffers)
=============================================================================
