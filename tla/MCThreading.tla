----------------------------- MODULE MCThreading -----------------------------
(* Scenes of a few messages in which the kinds of evidence meet.           *)
EXTENDS ThreadClosure

Column(values) == [column |-> values, fetched |-> {}]
Plain == [messageId |-> Column({}), references |-> Column({}), inReplyTo |-> Column({}),
  subject |-> None, raw |-> None, parsed |-> None, authored |-> None, provider |-> None, thread |-> None,
  time |-> 1, size |-> 1, from |-> None, to |-> {}, folder |-> None, automated |-> FALSE]
Named(id) == [Plain EXCEPT !.messageId = Column({<<id>>})]
Reply(id, chain) == [Named(id) EXCEPT !.references = Column({chain})]
Subject(marks) == [marks |-> marks, words |-> "topic"]
Weak(id, marks, from, to, time) ==
  [Named(id) EXCEPT !.subject = Subject(marks), !.from = from, !.to = {to}, !.time = time]
InFolder(message, folder) == [message EXCEPT !.folder = folder]
Copy(parsed, authored) == [Named("a") EXCEPT !.parsed = parsed, !.authored = authored]
Mirrored(folder) ==
  [InFolder(Weak("a", <<>>, "ann", "bob", 1), folder) EXCEPT !.raw = folder]

MCScenes == {
  \* parents that come late, a message that answers out of two threads
  <<{Named("a")}, {Reply("b", <<"a">>)}, {Reply("c", <<"x", "b">>)}, {Reply("x", <<"a", "y">>)}>>,
  \* headers that lead in a circle
  <<{Reply("a", <<"b">>), Reply("a", <<"c">>)}, {Reply("b", <<"c">>)}, {Reply("c", <<"a">>)}, {Reply("d", <<"b", "a">>)}>>,
  \* a Message-ID used twice, until a body proves the two copies of one message
  <<{Named("a"), Copy("p", None)}, {Copy("p", None)}, {Reply("b", <<"a">>)}, {Reply("c", <<"a">>)}>>,
  \* digests that contradict each other, and a copy between them
  <<{Copy("p", None), Copy("p", "x")}, {Copy("p", "x")}, {Copy("p", "y"), Copy("q", "y")}, {Reply("b", <<"a">>)}>>,
  \* copies that only their metadata joins
  <<{Mirrored("f"), [Mirrored("f") EXCEPT !.authored = "x"]}, {Mirrored("g")},
    {Mirrored("g"), [Mirrored("h") EXCEPT !.authored = "y"]}, {Reply("b", <<"a">>)}>>,
  \* a forward of a message, its replies, and a provider that threads them
  <<{[Named("a") EXCEPT !.thread = "t"]},
    {[Reply("b", <<"a">>) EXCEPT !.subject = Subject(<<"fwd">>), !.thread = "t"]},
    {[Reply("c", <<"a", "b">>) EXCEPT !.subject = Subject(<<"re", "fwd">>)]}, {[Named("d") EXCEPT !.thread = "t"]}>>,
  \* a provider's copies that disagree, without a Message-ID or with two
  <<{[Plain EXCEPT !.parsed = "p"]}, {[Plain EXCEPT !.raw = "r", !.parsed = "p"], [Named("b") EXCEPT !.provider = "m"]},
    {[Reply("a", <<"b", "c">>) EXCEPT !.provider = "m"], [Reply("b", <<"d", "c">>) EXCEPT !.provider = "m"]},
    {[Named("c") EXCEPT !.inReplyTo = Column({<<"b", "d">>})]}>>,
  \* subjects that may connect: roots that come to light, replies, and what takes one root away
  <<{Weak("a", <<>>, "ann", "bob", 1)}, {Weak("b", <<"re">>, "bob", "ann", 2)},
    {Weak("c", <<>>, "ann", "bob", 2), [Weak("c", <<>>, "ann", "bob", 2) EXCEPT !.from = None]}, {Reply("d", <<"c">>), Weak("d", <<"re">>, "bob", "ann", 9)}>>,
  \* headers that contradict themselves
  <<{[Named("a") EXCEPT !.messageId.fetched = {<<"b">>}], Named("a")},
    {[Reply("c", <<"a">>) EXCEPT !.references.fetched = {<<"b", "a">>}]},
    {[Reply("d", <<"a">>) EXCEPT !.references.fetched = {<<"b">>}], [Reply("d", <<>>) EXCEPT !.inReplyTo = Column({<<"b">>})]},
    {Named("b")}>>}
MCIds == 1..4
===============================================================================
