---------------------------- MODULE MCPathMatching ----------------------------
(* Small instances of PathMatching for TLC. *)
EXTENDS PathProperties

\* /a with one argument, twice, /a/b and / with any number of them; the chains /a/*/b
\* with any number, /a/b/b with none and /a/b with any number.
MCPathActions == {"one", "any", "root", "same"}
MCPathOf == [a \in MCPathActions |-> CASE a = "any" -> <<"a", "b">> [] a = "root" -> Root [] OTHER -> <<"a">>]
MCChainedActions == {"item", "list", "itemB", "listB", "listAll"}
MCChainedTo == [a \in MCChainedActions |->
                  CASE a \in {"item", "list"} -> "/" [] a = "itemB" -> "item" [] OTHER -> "list"]
MCPathPart == [a \in MCChainedActions |->
                  CASE a \in {"item", "list"} -> <<"a">> [] a = "listB" -> <<"b", "b">> [] OTHER -> <<"b">>]
MCEndPoints == {"itemB", "listB", "listAll"}
MCCaptureArgs == [a \in MCChainedActions |-> IF a = "item" THEN 1 ELSE 0]
MCNumberOfArgs == [a \in MCPathActions \cup MCEndPoints |->
                     CASE a \in {"any", "root", "itemB", "listAll"} -> -1 [] a \in {"one", "same"} -> 1 [] OTHER -> 0]
MCRequests == {Root, <<"", "">>, <<"a", "">>} \cup UNION {[1 .. n -> {"a", "b"}] : n \in 1 .. 4}
MCLinks == [action : {"one", "any", "root", "itemB", "listB"}, captures : {<<>>, <<"b">>},
            args : {<<>>, <<"b">>, <<"a", "b">>}]
=============================================================================
