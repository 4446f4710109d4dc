------------------------------- MODULE Gateway -------------------------------
(***************************************************************************)
(* WebSocketGateway (src/backend/src/notifications/services/               *)
(* websocket.gateway.ts): the sockets clients open, and the map from a     *)
(* user to the socket that authenticated as that user last.  A handler has *)
(* no await before its last change, so each is one action.  The rooms are  *)
(* left out.                                                               *)
(***************************************************************************)

CONSTANTS
  Sockets,      \* connections; a client that reconnects gets another
  Users,
  Identities,   \* Identities[c]: the users socket c may authenticate as
  None

ASSUME IdentitiesAssumption == Identities \in [Sockets -> SUBSET Users]
ASSUME NoneAssumption == None \notin Sockets \cup Users

(* Clients log in once per socket. *)
OneIdentity == \A c \in Sockets : \A u, v \in Identities[c] : u = v

VARIABLES
  socket,           \* socket[c]: unused, open or closed
  userId,           \* userId[c]: client.userId
  connectedUsers    \* connectedUsers[u]: the socket notifications go to

gatewayVars == <<socket, userId, connectedUsers>>

GatewayTypeOK ==
  /\ socket \in [Sockets -> {"unused", "open", "closed"}]
  /\ userId \in [Sockets -> Users \cup {None}]
  /\ connectedUsers \in [Users -> Sockets \cup {None}]

GatewayInit ==
  /\ socket = [c \in Sockets |-> "unused"]
  /\ userId = [c \in Sockets |-> None]
  /\ connectedUsers = [u \in Users |-> None]

handleConnection(c) ==
  /\ socket[c] = "unused"
  /\ socket' = [socket EXCEPT ![c] = "open"]
  /\ UNCHANGED <<userId, connectedUsers>>

handleAuthentication(c, u) ==
  /\ socket[c] = "open"
  /\ u \in Identities[c]
  /\ userId' = [userId EXCEPT ![c] = u]
  /\ connectedUsers' = [connectedUsers EXCEPT ![u] = c]
  /\ UNCHANGED socket

(* Mutant: the entry of the user stays. *)
ForgetNobody(u) == connectedUsers

(* The map without the user of a socket that is gone. *)
Forget(u) == [connectedUsers EXCEPT ![u] = None]

(* The entry is the user's, not the socket's: a newer one goes with it. *)
handleDisconnect(c) ==
  /\ socket[c] = "open"
  /\ socket' = [socket EXCEPT ![c] = "closed"]
  /\ connectedUsers' = IF userId[c] # None THEN Forget(userId[c]) ELSE connectedUsers
  /\ UNCHANGED userId

(* The process dies, and the map with it. *)
GatewayRestart ==
  /\ socket' = [c \in Sockets |-> IF socket[c] = "open" THEN "closed" ELSE socket[c]]
  /\ connectedUsers' = [u \in Users |-> None]
  /\ UNCHANGED userId

GatewayStep ==
  \E c \in Sockets :
    \/ handleConnection(c)
    \/ \E u \in Users : handleAuthentication(c, u)
    \/ handleDisconnect(c)

GatewaySpec == GatewayInit /\ [][GatewayStep \/ GatewayRestart]_gatewayVars

(* sendToUser answers true when the map has the user; whether anybody gets
   the message depends on that socket. *)
Listed(u)  == connectedUsers[u] # None
Reaches(u) == Listed(u) /\ socket[connectedUsers[u]] = "open"

(* Whatever the order in which sockets of one or several users connect,
   authenticate and disconnect, the map names only open sockets, each
   authenticated as the user it is listed for. *)
ListedIsOpen ==
  \A u \in Users : Listed(u) => Reaches(u) /\ userId[connectedUsers[u]] = u
=============================================================================
