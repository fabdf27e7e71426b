---------------------------- MODULE PathProperties ----------------------------
(***************************************************************************)
(* What must hold of the action that PathMatching finds.                    *)
(***************************************************************************)
EXTENDS PathMatching

\* The chains of registered actions from "/" to an end point, and how they fit a
\* path, said without the search: each part where it belongs, enough left over.
Chains == LET C == Registered \cap ChainedActions
          IN  {c \in UNION {[1 .. n -> C] : n \in 1 .. Cardinality(C)} :
                  /\ ChainedTo[c[1]] = "/" /\ Last(c) \in EndPoints
                  /\ \A i \in 1 .. Len(c) - 1 : ChainedTo[c[i + 1]] = c[i]}
UpTo(c, i)  == FoldLeft(LAMBDA n, a : n + Len(PathPart[a]) + CaptureArgs[a], 0, Take(c, i))
Fits(c, path) ==
    /\ UpTo(c, Len(c)) <= Len(path)
    /\ \A i \in 1 .. Len(c) : IsPrefix(PathPart[c[i]], Drop(path, UpTo(c, i - 1)))
    /\ TakesArgs(Last(c), Len(path) - UpTo(c, Len(c)))

Levels == {Take(request, n) : n \in 1 .. Len(request)} \cup {Root}
After(l) == IF IsPrefix(l, request) THEN Drop(request, Len(l)) ELSE request
\* The actions of DispatchTypePath that answer the request, exactly or with any arguments.
ExactAt(l)  == {a \in paths : PathOf[a] = l /\ NumberOfArgs[a] = Len(After(l))}
SlurpyAt(l) == {a \in paths : PathOf[a] = l /\ NumberOfArgs[a] = -1}

\* The longest path that has one of these.
Rank(l) == IF l = Root THEN 0 ELSE Len(l)
Longest(At(_), l) == At(l) # {} /\ \A k \in Levels : At(k) # {} => Rank(k) <= Rank(l)

Done == stage = "done"
Chained == action.chain # <<>> /\ action.chain[1] \in ChainedActions

\* The action is the one a reader of the registered paths expects: a path of its own
\* with as many arguments as are given before a chain, a chain before a shorter path,
\* an exact match on a shorter path before any number of arguments on a longer one;
\* and the request is told the path and the arguments of that action and of no other
\* that was set up on the way (dispatcher.cpp:183-217, dispatchtypepath.cpp:70-103).
PathChosen ==
    Done /\ ~Chained =>
        IF \E l \in Levels : ExactAt(l) # {}
        THEN \E l \in Levels : \E a \in ExactAt(l) :
                /\ Longest(ExactAt, l)
                /\ action = [chain |-> <<a>>, match |-> l, captures |-> <<>>, args |-> After(l)]
        ELSE IF \E l \in Levels : SlurpyAt(l) # {}
        THEN \E l \in Levels : \E a \in SlurpyAt(l) :
                /\ Longest(SlurpyAt, l)
                /\ action = [chain |-> <<a>>, match |-> l, captures |-> <<>>, args |-> After(l)]
        ELSE action = NoAction

\* The search of the tree, which cuts at every node, finds a chain exactly when one
\* fits, and one of those that leave the fewest parts over, in whatever order the
\* actions were registered (dispatchtypechained.cpp:360-474).
ChainIsBest ==
    Done /\ ExactAt(request) = {} =>
        LET fit == {c \in Chains : Fits(c, request)}
        IN  /\ Chained <=> fit # {}
            /\ Chained => /\ action.chain \in fit
                          /\ action.args = Drop(request, UpTo(action.chain, Len(action.chain)))
                          /\ \A c \in fit : Len(action.args) <= Len(request) - UpTo(c, Len(c))

\* A link made for an action with as many arguments as it takes leads to an action;
\* when it is that action it is given what the link was made with, divided into
\* captures and arguments as its chain has them, whichever way it was divided in the
\* call, and an action of a chain yields only to a chain or to a path of its own
\* (context.cpp:277-312, dispatchtypechained.cpp:264-345).
LinksLeadBack ==
    Done /\ meant # NoLink =>
        LET given == meant.captures \o meant.args
            n     == IF meant.action \in PathActions THEN 0 ELSE CapturesOf(Expanded(meant.action))
        IN  TakesArgs(meant.action, Len(given) - n) =>
                /\ action # NoAction
                /\ Last(action.chain) = meant.action =>
                       action.captures = Take(given, n) /\ action.args = Drop(given, n)
                /\ meant.action \in ChainedActions => Chained \/ ExactAt(request) # {}
=============================================================================
