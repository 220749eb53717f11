--------------------------- MODULE MCFutureChain ---------------------------
(***************************************************************************)
(* FutureChain on small programs: two promises and every pair of futures   *)
(* made of them and of each other; executeAll of two futures, of one twice *)
(* and of none, alone and under a chain; sequence, which algorithm.h       *)
(* writes as flatMaps whose functions make the next one; and async::wait.  *)
(***************************************************************************)
EXTENDS FutureChain

Fns == {"returns", "throws"}
Promise == Op("promise", 0, "returns", 0, <<>>)
Promises == <<Promise, Promise>>
All(list) == Op("executeAll", 0, "returns", 0, list)

\* The operations on the futures srcs, with functions that return inners.
Operations1(srcs, inners) ==
  {Op(k, s, f, 0, <<>>) : k \in {"map", "filter", "recover", "foreach"}, s \in srcs, f \in Fns}
  \union {Op(k, s, "returns", i, <<>>) : k \in {"flatMap", "recoverWith"}, s \in srcs, i \in inners}
  \union {Op(k, s, "throws", 1, <<>>) : k \in {"flatMap", "recoverWith"}, s \in srcs}
  \union {Op(k, s, "returns", 0, <<>>) : k \in {"failed", "callback"}, s \in srcs}
  \union {Op("async", 0, f, 0, <<>>) : f \in Fns}
  \union {Op("asyncFuture", 0, "returns", i, <<>>) : i \in inners}

\* A future of the first promise (the promises are interchangeable), and one
\* of any of the three.
Pairs ==
  {Promises \o <<a, b>> :
     a \in {o \in Operations1({1}, {1, 2}) : o.kind \notin SinkKinds},
     b \in Operations1({1, 2, 3}, {2, 3})}

Lists ==
  {Promises \o <<All(l)>> : l \in {<<1, 2>>, <<1, 1>>, <<>>}}
  \union {Promises \o <<All(<<1, 2>>), Op(k, 3, "returns", 1, <<>>)>> : k \in {"map", "recoverWith"}}
  \union {Promises \o <<Op(k, 1, "returns", 2, <<>>), All(<<3, 2>>)>> : k \in {"map", "flatMap"}}

\* sequence of two futures, of one twice, of none
Go(src, next) == Op("flatMap", src, "returns", next, <<>>)
Unit == Op("successful", 0, "returns", 0, <<>>)
Sequence(a, b) == Promises \o <<Unit, Go(b, 3), Go(a, 4), Op("map", 5, "returns", 0, <<>>)>>
Sequences1 == {Sequence(1, 2), Sequence(1, 1),
               Promises \o <<Unit, Op("map", 3, "returns", 0, <<>>)>>,
               Promises \o <<Op("failure", 0, "returns", 0, <<>>), Go(1, 3)>>}

MCAwaited == {Promises, Promises \o <<Op("map", 1, "returns", 0, <<>>)>>,
              Promises \o <<Go(1, 2)>>, Promises \o <<All(<<>>)>>}

\* For the run that refutes WaitReturns.
MCWaited == {<<Promise>>}
MCPrograms == Pairs \union Lists \union Sequences1 \union MCAwaited
===========================================================================
