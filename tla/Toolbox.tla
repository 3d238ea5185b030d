------------------------------ MODULE Toolbox ------------------------------
(* The life of the tools: CompositeToolExecutor (tools/executor.py) over an
   McpToolExecutor (tools/mcp.py), whose McpServerManager (tools/_mcp_manager.py)
   connects the configured services one by one, and over another executor that
   starts after it.  Starting and stopping may fail or be cancelled at each of
   their awaits, and be tried again.

   A client is a connection to a service, named by the start that made it; of
   the tools of a service only that it has some is kept.                      *)
EXTENDS Integers, SequencesExt

CONSTANTS
  Services,  \* the configured services, in their order
  NoClient,  \* no route
  MaxStarts  \* bound on the starts of a behaviour

ASSUME ToolboxAssumption ==
  /\ Services \in Seq(ToSet(Services)) \ {<<>>} /\ IsInjective(Services)
  /\ MaxStarts \in Nat
  /\ NoClient \notin ToSet(Services) \X Nat

ServiceNames == ToSet(Services)
Clients == ServiceNames \X (1..MaxStarts)

VARIABLES
  life,      \* where the composite is in its life
  starts,    \* starts begun
  next,      \* position of the service whose turn it is
  linked,    \* clients that are connected
  entered,   \* the client whose tools are not registered yet, as a set
  stack,     \* clients on the exit stack of the startup in progress
  exitStack, \* clients on _exit_stack
  routes,    \* _tool_routes: the client that serves the tools of a service
  running,   \* McpToolExecutor._started
  exposed,   \* its definitions: the services they come from
  offered,   \* the composite's
  abandoned, \* history: clients nobody holds that may be open: an exception ended
             \* the startup that made them, or the closing of their exit stack
  scarred    \* history: closing the exit stack has failed

manager == <<next, linked, entered, stack, exitStack, routes>>
toolboxVars == <<life, starts, manager, running, exposed, offered, abandoned, scarred>>

NoRoutes == [s \in ServiceNames |-> NoClient]

ToolboxInit ==
  /\ life = "down" /\ starts = 0 /\ next = 1
  /\ linked = {} /\ entered = {} /\ stack = {} /\ exitStack = {}
  /\ routes = NoRoutes
  /\ running = FALSE /\ exposed = {} /\ offered = {}
  /\ abandoned = {} /\ scarred = FALSE

-----------------------------------------------------------------------------
(* McpServerManager.startup *)

BeginStart ==
  /\ life = "down" /\ starts < MaxStarts
  /\ life' = "connecting" /\ starts' = starts + 1 /\ next' = 1 /\ stack' = {}
  /\ UNCHANGED <<linked, entered, exitStack, routes, running, exposed, offered, abandoned,
                 scarred>>

Turn == life = "connecting" /\ next <= Len(Services)

ConnectService ==
  /\ Turn /\ entered = {}
  /\ entered' = {<<Services[next], starts>>}
  /\ linked' = linked \cup entered'
  /\ UNCHANGED <<life, starts, next, stack, exitStack, routes, running, exposed, offered,
                 abandoned, scarred>>

(* _register_service_tools: no name of the service may have a route *)
Register ==
  /\ Turn /\ entered # {} /\ routes[Services[next]] = NoClient
  /\ routes' = [routes EXCEPT ![Services[next]] = CHOOSE c \in entered : TRUE]
  /\ stack' = stack \cup entered
  /\ entered' = {} /\ next' = next + 1
  /\ UNCHANGED <<life, starts, linked, exitStack, running, exposed, offered, abandoned,
                 scarred>>

SkipOpen ==  \* mutant: a service that fails is skipped as it is
  /\ Turn
  /\ entered' = {} /\ next' = next + 1
  /\ UNCHANGED <<life, starts, linked, stack, exitStack, routes, running, exposed, offered,
                 abandoned, scarred>>

(* it cannot be connected, cannot list its tools, or they have a route: it is
   closed, and the startup goes on *)
SkipService ==
  /\ Turn
  /\ linked' = linked \ entered
  /\ entered' = {} /\ next' = next + 1
  /\ UNCHANGED <<life, starts, stack, exitStack, routes, running, exposed, offered,
                 abandoned, scarred>>

(* closing it raises, or the task is cancelled: the exception leaves startup()
   before _exit_stack is set, and the composite has nothing to roll back *)
EscapeStartup ==
  /\ Turn
  /\ linked' \in {linked, linked \ entered}
  /\ abandoned' = abandoned \cup (linked' \cap (stack \cup entered))
  /\ life' = "down" /\ entered' = {} /\ stack' = {}
  /\ UNCHANGED <<starts, next, exitStack, routes, running, exposed, offered, scarred>>

FinishStartup ==
  /\ life = "connecting" /\ next > Len(Services)
  /\ exitStack' = stack /\ stack' = {} /\ life' = "defining"
  /\ UNCHANGED <<starts, next, linked, entered, routes, running, exposed, offered,
                 abandoned, scarred>>

-----------------------------------------------------------------------------
(* closing the exit stack raises, or is cancelled: every client is asked to
   close, but some may stay open, and the stack is given up already; the
   exception leaves before the routes are cleared *)
CloseFails ==
  \E left \in SUBSET exitStack :
    /\ linked' = (linked \ exitStack) \cup left
    /\ abandoned' = abandoned \cup left
    /\ scarred' = TRUE /\ UNCHANGED routes

(* McpServerManager.shutdown *)
StopManager ==
  /\ \/ linked' = linked \ exitStack /\ routes' = NoRoutes /\ UNCHANGED <<abandoned, scarred>>
     \/ CloseFails
  /\ exitStack' = {}
  /\ UNCHANGED <<next, entered, stack>>

(* McpToolExecutor.shutdown *)
StopMcp ==
  /\ IF running THEN StopManager ELSE UNCHANGED <<manager, abandoned, scarred>>
  /\ exposed' = {} /\ running' = FALSE

(* McpToolExecutor.start after startup(): its definitions *)
Define ==
  /\ life = "defining"
  /\ exposed' = {s \in ServiceNames : routes[s] # NoClient}
  /\ running' = TRUE /\ life' = "others"
  /\ UNCHANGED <<starts, manager, offered, abandoned, scarred>>

(* a tool of a shape or a name that no ToolDefinition has *)
DefineFails ==
  /\ life = "defining"
  /\ StopManager
  /\ life' = "down"
  /\ UNCHANGED <<starts, running, exposed, offered>>

(* the executors after it start, and the routes are refreshed *)
OthersStart ==
  /\ life = "others"
  /\ offered' = exposed /\ life' = "up"
  /\ UNCHANGED <<starts, manager, running, exposed, abandoned, scarred>>

(* one of them fails or has a tool of the same name: what started is stopped,
   whatever that raises *)
OthersFail ==
  /\ life = "others"
  /\ StopMcp
  /\ life' = "down"
  /\ UNCHANGED <<starts, offered>>

(* CompositeToolExecutor.shutdown, which tells what it could not stop *)
ShutDownTools ==
  /\ life = "up"
  /\ StopMcp
  /\ offered' = {} /\ life' = "down"
  /\ UNCHANGED starts

(* cancelled while the services close: the composite goes on to be started *)
ShutDownCancelled ==
  /\ life = "up" /\ running
  /\ CloseFails /\ exitStack' = {}
  /\ exposed' = {} /\ running' = FALSE
  /\ UNCHANGED <<life, starts, next, entered, stack, offered>>

ToolboxNext ==
  \/ BeginStart \/ ConnectService \/ Register \/ SkipService \/ EscapeStartup
  \/ FinishStartup \/ Define \/ DefineFails \/ OthersStart \/ OthersFail
  \/ ShutDownTools \/ ShutDownCancelled

ToolboxSpec == ToolboxInit /\ [][ToolboxNext]_toolboxVars

-----------------------------------------------------------------------------
(* Every variable stays in the range the code gives it. *)
ToolboxTypeOK ==
  /\ life \in {"down", "connecting", "defining", "others", "up"}
  /\ starts \in 0..MaxStarts /\ next \in 1..Len(Services) + 1
  /\ linked \subseteq Clients /\ entered \subseteq Clients /\ stack \subseteq Clients
  /\ exitStack \subseteq Clients /\ abandoned \subseteq Clients
  /\ routes \in [ServiceNames -> Clients \cup {NoClient}]
  /\ running \in BOOLEAN /\ scarred \in BOOLEAN
  /\ exposed \subseteq ServiceNames /\ offered \subseteq ServiceNames

(* What the composite offers the model can be called: the service of every
   tool is connected, across failed starts and restarts, unless closing the
   services has failed before: then a route outlives its client. *)
ToolsAreReachable ==
  life = "up" /\ ~scarred => running /\ \A s \in offered : routes[s] \in linked

(* Every open connection is held by somebody who will close it, and a composite
   that is not started has none, whatever step of a start or a stop failed;
   except those nobody can close any more: of a startup that an exception left,
   and of services whose closing itself failed. *)
NothingIsLeftOpen ==
  /\ linked \subseteq abandoned \cup entered \cup stack \cup exitStack
  /\ life = "down" => linked \subseteq abandoned

(* Connections and offered tools belong together. *)
ToolsMatchConnections == ToolsAreReachable /\ NothingIsLeftOpen
=============================================================================
