----------------------------- MODULE RpcStatus ------------------------------
(***************************************************************************)
(* How ClientManagerImpl turns the outcome of each RPC into the error code *)
(* it hands to the caller: a function from outcomes to error codes per RPC.*)
(* An outcome is a status code of the server's answer, or "TRANSPORT" when *)
(* the call itself failed (refused, reset, past its deadline).             *)
(***************************************************************************)
Outcome ==
  {"TRANSPORT", "OK", "UNAUTHENTICATED", "PERMISSION_DENIED", "INVALID_ARGUMENT", "NOT_FOUND",
   "DEADLINE_EXCEEDED", "FAILED_PRECONDITION", "INTERNAL", "UNIMPLEMENTED"}

NoError == "none"
NoCallback == "no callback"

Table(transport, listed, default) ==
  [s \in Outcome |-> CASE s = "TRANSPORT" -> transport
                       [] s \in DOMAIN listed -> listed[s]
                       [] OTHER -> default]

Also(f, g) == [s \in DOMAIN f \cup DOMAIN g |-> IF s \in DOMAIN f THEN f[s] ELSE g[s]]

(* The cases every switch has, and the ones several have. *)
Access == [OK |-> NoError, UNAUTHENTICATED |-> "Unauthorized", PERMISSION_DENIED |-> "Forbidden"]
Server == Also(Access, [INTERNAL |-> "InternalServerError"])
Argued == Also(Server, [INVALID_ARGUMENT |-> "BadRequest"])
Polled == Also(Argued, [DEADLINE_EXCEEDED |-> "GatewayTimeout"])

(* A status heartbeat does not know is logged and the callback left out. *)
heartbeat == Table("RequestTimeout", Argued, NoCallback)
healthCheck == Table("RequestTimeout", Server, "NotImplemented")

send == Table("RequestTimeout", Argued, "NotImplemented")
resolveRoute ==
  Table("RequestTimeout", Also(Argued, [NOT_FOUND |-> "NotFound"]), "NotImplemented")
queryAssignment == Table("RequestTimeout", Argued, "NotImplemented")
receiveMessage == Table("RequestTimeout", Polled, "NotImplemented")
ack == Table("RequestTimeout", Argued, "NotImplemented")
nack == Table("RequestTimeout", Server, "NotImplemented")
endTransaction == Table("BadRequest", Server, "NotImplemented")
queryOffset == Table("RequestTimeout", Server, "NotImplemented")
pullMessage ==
  Table("RequestTimeout",
        Also(Polled, [NOT_FOUND |-> "NotFound", FAILED_PRECONDITION |-> "PreconditionRequired"]),
        "NotImplemented")

(* The synchronous ones. *)
reportThreadStackTrace == Table("RequestTimeout", Access, "NotImplemented")
reportMessageConsumptionResult == Table("RequestTimeout", Access, "NotImplemented")
notifyClientTermination == Table("RequestTimeout", Server, "NotImplemented")

(* The context is handed on: the caller looks at the statuses itself. *)
pollCommand == [s \in Outcome |-> IF s = "TRANSPORT" THEN "failed" ELSE NoError]
forwardMessageToDeadLetterQueue ==
  [s \in Outcome |-> IF s = "TRANSPORT" THEN "failed" ELSE NoError]

ErrorOf ==
  [heartbeat |-> heartbeat, healthCheck |-> healthCheck, send |-> send,
   resolveRoute |-> resolveRoute, queryAssignment |-> queryAssignment,
   receiveMessage |-> receiveMessage, ack |-> ack, nack |-> nack,
   endTransaction |-> endTransaction, queryOffset |-> queryOffset, pullMessage |-> pullMessage,
   pollCommand |-> pollCommand, forwardMessageToDeadLetterQueue |-> forwardMessageToDeadLetterQueue]

Rpc == DOMAIN ErrorOf
=============================================================================
