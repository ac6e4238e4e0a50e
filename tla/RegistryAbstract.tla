-------------------------- MODULE RegistryAbstract --------------------------
(***************************************************************************)
(* What the command registry promises its surfaces (CLI, TUI, REST):      *)
(* commands are only ever added, each by one atomic step; only a valid    *)
(* command is added; no two commands share a name, no two share a route,  *)
(* and every route names the command bound to it.                         *)
(***************************************************************************)
CONSTANTS
    Commands,     \* the commands callers may register
    NoREST,       \* a command with no REST binding
    NameOf(_),    \* the name a command is registered under
    RouteOf(_),   \* the route a command with a REST binding claims
    Valid(_)      \* the command is complete enough to be registered

VARIABLES
    registered,   \* name -> command
    routes        \* route -> name

Init ==
    /\ registered = [n \in {} |-> NoREST]
    /\ routes = [r \in {} |-> NoREST]

\* One command is added, claiming its name and, if it has one, its route.
Add(cmd) ==
    LET n == NameOf(cmd)
    IN /\ Valid(cmd)
       /\ n \notin DOMAIN registered
       /\ cmd.rest # NoREST => RouteOf(cmd) \notin DOMAIN routes
       /\ registered' = [m \in DOMAIN registered \cup {n} |->
                            IF m = n THEN cmd ELSE registered[m]]
       /\ routes' = IF cmd.rest = NoREST THEN routes
                    ELSE [r \in DOMAIN routes \cup {RouteOf(cmd)} |->
                            IF r = RouteOf(cmd) THEN n ELSE routes[r]]

Next == \E cmd \in Commands : Add(cmd)

Spec == Init /\ [][Next]_<<registered, routes>>

=============================================================================
