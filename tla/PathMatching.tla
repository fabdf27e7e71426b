---------------------------- MODULE PathMatching ----------------------------
(***************************************************************************)
(* Dispatcher, DispatchTypePath and DispatchTypeChained: which action an    *)
(* application's actions, registered in any order, leave to a request, and  *)
(* the links that lead back to an action.                                   *)
(*                                                                         *)
(* A path is the sequence of its parts, "/" has one empty part.  Actions    *)
(* with the faults that registerAction reports, chains that lead back to    *)
(* themselves and CaptureArgs without a number are left out.                *)
(***************************************************************************)
EXTENDS Integers, Sequences, SequencesExt, FiniteSets

CONSTANTS PathActions, PathOf,          \* the attribute Path
          ChainedActions, ChainedTo, PathPart,
          EndPoints, CaptureArgs,       \* of the chained actions
          NumberOfArgs,                 \* -1 when any number of them will do
          Requests,                     \* the paths asked for
          Links                         \* what uriFor is asked for

Actions == PathActions \cup ChainedActions
Root    == <<"">>
NoLink  == [action |-> "none", captures |-> <<>>, args |-> <<>>]
NoAction == [chain |-> <<>>, match |-> Root, captures |-> <<>>, args |-> <<>>]

ASSUME PathMatchingAssumption ==
    /\ PathActions \cap ChainedActions = {} /\ {"/", "none"} \cap Actions = {}
    /\ EndPoints \subseteq ChainedActions
    /\ ChainedTo \in [ChainedActions -> {"/"} \cup (ChainedActions \ EndPoints)]
    /\ CaptureArgs \in [ChainedActions -> Nat] /\ \A a \in EndPoints : CaptureArgs[a] = 0
    /\ NumberOfArgs \in [PathActions \cup EndPoints -> Nat \cup {-1}]
    /\ \A l \in Links : l.action \in PathActions \cup EndPoints

VARIABLES
    paths,                      \* the registered actions of DispatchTypePath
    childrenOf,                 \* by parent, the last registered first
    refused,                    \* what conflicted when it was registered
    stage,                      \* "setup", "level" while prepareAction loops, "done"
    request,                    \* the path asked for
    level, args,                \* the path that is tried, and what was taken off it
    action,                     \* the one set up, with what the request learns of it
    meant                       \* the link the request was made from

vars == <<paths, childrenOf, refused, stage, request, level, args, action, meant>>

Registered == paths \cup UNION {Range(childrenOf[p]) : p \in DOMAIN childrenOf}

Init ==
    /\ paths = {} /\ childrenOf = [p \in {"/"} \cup ChainedActions |-> <<>>] /\ refused = {}
    /\ stage = "setup" /\ request = Root /\ level = Root /\ args = <<>>
    /\ action = NoAction /\ meant = NoLink

----------------------------------------------------------------------------
(* Registering.                                                             *)

Conflicts(a) == \E b \in paths : PathOf[b] = PathOf[a] /\ NumberOfArgs[b] = NumberOfArgs[a]

RegisterPath(a) ==
    /\ stage = "setup" /\ a \notin Registered \cup refused
    /\ IF Conflicts(a) THEN refused' = refused \cup {a} /\ UNCHANGED paths
                       ELSE paths' = paths \cup {a} /\ UNCHANGED refused
    /\ UNCHANGED <<childrenOf, stage, request, level, args, action, meant>>

RegisterChained(a) ==
    /\ stage = "setup" /\ a \notin Registered
    /\ childrenOf' = [childrenOf EXCEPT ![ChainedTo[a]] = <<a>> \o @]
    /\ UNCHANGED <<paths, refused, stage, request, level, args, action, meant>>

----------------------------------------------------------------------------
(* DispatchTypeChained.                                                     *)

Drop(s, n) == SubSeq(s, n + 1, Len(s))
Take(s, n) == SubSeq(s, 1, n)

FitsPart(a, parts) == IsPrefix(PathPart[a], parts)

\* The longest parts first, the last registered first among equals.
Candidates(parent, parts) ==
    FlattenSeq([n \in 1 .. Len(parts) |->
        SelectSeq(childrenOf[parent], LAMBDA a : Len(PathPart[a]) = Len(parts) + 1 - n
                                                 /\ FitsPart(a, parts))])

NoMatch == [actions |-> <<>>, captures |-> <<>>, parts |-> <<>>, n |-> 0]

\* Wrong variant: what is left over is not compared.
BetterChainLast(ret, best) == ret.actions # <<>>

BetterChain(ret, best) ==
    /\ ret.actions # <<>>
    /\ \/ best.actions = <<>>
       \/ Len(ret.parts) < Len(best.parts)
       \/ Len(ret.parts) = Len(best.parts) /\ Len(ret.captures) < Len(best.captures) /\ ret.n > best.n

BetterEnd(a, parts, best) ==
    \/ best.actions = <<>>
    \/ Len(parts) < Len(best.parts)
    \/ parts = <<>> /\ NumberOfArgs[a] = 0

TakesArgs(a, n) == NumberOfArgs[a] \in {-1, n}

RECURSIVE RecurseMatch(_, _)
RecurseMatch(parent, pathParts) ==
    LET Try(best, a) ==
          LET parts == Drop(pathParts, Len(PathPart[a]))
              ret   == RecurseMatch(a, Drop(parts, CaptureArgs[a]))
          IN  IF a \in EndPoints
              THEN IF TakesArgs(a, Len(parts)) /\ BetterEnd(a, parts, best)
                   THEN [actions |-> <<a>>, captures |-> <<>>, parts |-> parts,
                         n |-> Len(PathPart[a])]
                   ELSE best
              ELSE IF Len(parts) >= CaptureArgs[a] /\ BetterChain(ret, best)
                   THEN [actions |-> <<a>> \o ret.actions,
                         captures |-> Take(parts, CaptureArgs[a]) \o ret.captures,
                         parts |-> ret.parts, n |-> Len(PathPart[a]) + ret.n]
                   ELSE best
    IN  FoldLeft(Try, NoMatch, Candidates(parent, pathParts))

----------------------------------------------------------------------------
(* prepareAction.                                                           *)

Exact   == {a \in paths : PathOf[a] = level /\ NumberOfArgs[a] = Len(args)}
Slurpy  == {a \in paths : PathOf[a] = level /\ NumberOfArgs[a] = -1}
Matched(a) == [chain |-> <<a>>, match |-> level, captures |-> <<>>, args |-> args]

\* What the application asks a request of; it has the paths of its links as well.
Start(path, l) ==
    /\ stage # "level" /\ request' = path /\ meant' = l
    /\ stage' = "level" /\ level' = path /\ args' = <<>> /\ action' = NoAction
    /\ UNCHANGED <<paths, childrenOf, refused>>

Serve(path) == Start(path, NoLink)

MatchPath ==
    /\ stage = "level" /\ \E a \in Exact : action' = Matched(a)
    /\ stage' = "done"
    /\ UNCHANGED <<paths, childrenOf, refused, request, level, args, meant>>

MatchChained ==
    /\ stage = "level" /\ Exact = {} /\ args = <<>>
    /\ LET ret == RecurseMatch("/", level)
       IN  /\ ret.actions # <<>>
           /\ action' = [chain |-> ret.actions, match |-> <<Last(ret.actions)>>,
                         captures |-> ret.captures, args |-> ret.parts]
    /\ stage' = "done"
    /\ UNCHANGED <<paths, childrenOf, refused, request, level, args, meant>>

\* Wrong variant: a shorter path that takes any arguments is preferred.
PartialLast == IF Slurpy # {} THEN Matched(CHOOSE a \in Slurpy : TRUE) ELSE action

\* A partial match is kept, the loop goes on.
Partial == IF Slurpy # {} /\ action = NoAction THEN Matched(CHOOSE a \in Slurpy : TRUE) ELSE action

NextLevel ==
    /\ stage = "level" /\ Exact = {}
    /\ args = <<>> => RecurseMatch("/", level).actions = <<>>
    /\ action' = Partial
    /\ IF level = Root
       THEN stage' = "done" /\ UNCHANGED <<level, args>>
       ELSE /\ args' = <<Last(level)>> \o args
            /\ level' = IF Len(level) = 1 THEN Root ELSE Front(level)
            /\ UNCHANGED stage
    /\ UNCHANGED <<paths, childrenOf, refused, request, meant>>

----------------------------------------------------------------------------
(* Context::uriFor and uriForAction.                                        *)

\* expandAction: the action and those it is chained to, as far as they are registered.
RECURSIVE Expanded(_)
Expanded(a) ==
    IF a \in Registered \cap ChainedActions THEN Expanded(ChainedTo[a]) \o <<a>> ELSE <<>>

CapturesOf(chain) == FoldLeft(LAMBDA n, a : n + CaptureArgs[a], 0, chain)

\* The parts of a chain between what they capture.
ChainUri(chain, captures) ==
    FoldLeft(LAMBDA u, a : [parts |-> u.parts \o PathPart[a] \o Take(u.rest, CaptureArgs[a]),
                            rest  |-> Drop(u.rest, CaptureArgs[a])],
             [parts |-> <<>>, rest |-> captures], chain).parts

UriForAction(a, captures) ==
    IF a \in PathActions THEN IF captures = <<>> THEN PathOf[a] ELSE <<>>
    ELSE LET chain == Expanded(a)
         IN  IF ChainedTo[chain[1]] = "/" /\ CapturesOf(chain) = Len(captures)
             THEN ChainUri(chain, captures) ELSE <<>>

\* Wrong variant: what is missing of the captures is taken from the end.
FromArgsLast(n, as) == [captures |-> SubSeq(as, Len(as) - n + 1, Len(as)), args |-> Take(as, Len(as) - n)]

FromArgs(n, as) == [captures |-> Take(as, n), args |-> Drop(as, n)]

UriFor(a, captures, as) ==
    LET n     == IF a \in PathActions THEN 0 ELSE CapturesOf(Expanded(a))
        lacks == IF Len(captures) >= n THEN 0
                 ELSE IF n - Len(captures) < Len(as) THEN n - Len(captures) ELSE Len(as)
        some  == FromArgs(lacks, as)
        local == IF n > 0 THEN [captures |-> captures \o some.captures, args |-> some.args]
                 ELSE [captures |-> <<>>, args |-> captures \o as]
        path  == UriForAction(a, local.captures)
    IN  IF path = <<>> THEN <<>>
        ELSE IF path = Root /\ local.args # <<>> THEN local.args ELSE path \o local.args

Follow(l) ==
    /\ l.action \in Registered
    /\ \E path \in {UriFor(l.action, l.captures, l.args)} : path # <<>> /\ Start(path, l)

----------------------------------------------------------------------------
Next ==
    \/ (\E a \in PathActions : RegisterPath(a)) \/ (\E a \in ChainedActions : RegisterChained(a))
    \/ (\E path \in Requests : Serve(path)) \/ (\E l \in Links : Follow(l))
    \/ MatchPath \/ MatchChained \/ NextLevel

Spec == Init /\ [][Next]_vars
=============================================================================
