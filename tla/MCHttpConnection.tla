-------------------------- MODULE MCHttpConnection --------------------------
(* Small instances of HttpConnection and FastCgi for TLC. *)
EXTENDS FastCgi

Scenario(streams, h) == {[stream |-> s, habits |-> h \cup {"races"}] : s \in streams}

\* Two requests, of which only the last may ask to close the connection.
TwoRequests == {<<a, b>> : a \in {"get", "keep", "post"}, b \in {"get", "keep", "close", "post"}}

\* A client that waits for each response, with actions that suspend or close; a
\* client that pipelines to actions that answer at once; one that pipelines after
\* a body to an action that closes; and bodies that cannot be stored.
MCWellBehaved == Scenario(TwoRequests, {"suspends", "closes"})
                     \cup Scenario(TwoRequests, {"pipelines", "streams"})
                     \cup Scenario({<<"post", "get">>}, {"pipelines", "closes"})
                     \cup Scenario({<<"post", "get">>, <<"keep", "post">>}, {"pipelines", "fails"})

\* Web servers that speak FastCGI and wait for each answer.
FcgiScenario(streams, h) == {[stream |-> s, habits |-> h \cup {"fastcgi"}] : s \in streams}
MCFastCgi == FcgiScenario({"keep", "upload"} \X {"keep", "close", "upload"}, {"suspends"})
                 \cup FcgiScenario({<<"upload">>}, {"fails"})
MCServed == MCWellBehaved \cup MCFastCgi

\* What the run leaves out.  A request that is pipelined behind an asynchronous one,
\* and a segment that ends between CR and LF, violate EventuallyDispatched; a
\* request that is pipelined behind an answer that closes violates SeenAsSent.
MCPipelineAsync == Scenario({<<"get", "get">>}, {"pipelines", "suspends"})
MCPipelineClose == Scenario({<<"get", "get">>}, {"pipelines", "closes"})
MCSplitLine     == Scenario({<<"get">>}, {"splits"})

\* With FastCGI: a segment that ends in the padding of a record stops the worker, one
\* that arrives at the wrong moment is taken for the start of a record, and a request
\* that is pipelined stays in the buffer.  They violate EventuallyDispatched.
MCFcgiPadding   == FcgiScenario({<<"upload">>}, {"splits"})
MCFcgiRaces     == FcgiScenario({<<"upload">>}, {"races"})
MCFcgiPipelines == FcgiScenario({<<"keep", "keep">>}, {"pipelines"})
=============================================================================
