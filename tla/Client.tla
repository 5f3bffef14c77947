------------------------------- MODULE Client -------------------------------
(***************************************************************************)
(* The XML-RPC client library (src/xmlrpcclient/xmlrpc-client.go) as used  *)
(* by supervisorctl: one call at a time, each through post, which picks    *)
(* postInetHTTP or postUnixHTTP by the URL scheme, and processResponse.    *)
(* Each call hands post a callback that sets the call's err and reply; the *)
(* call returns whatever the callback left, or the zero values when the    *)
(* callback never ran.                                                     *)
(*                                                                         *)
(* The transport is a fault model: the request can be lost before the      *)
(* daemon reads it (refused connection, failed dial, SetDeadline or        *)
(* write) or the reply lost after the daemon ran the handler (timeout,     *)
(* reset, failed read).  The daemon's side is its handlers' error paths:   *)
(* a handler that looks the name up (getProcessInfo, startProcess,         *)
(* stopProcess, signalProcess) answers a fault for an unknown name; the    *)
(* HTTP layer may refuse the request with a non-2xx status.                *)
(* Arguments travel by position, so the first string field of the          *)
(* client's argument struct is what the handler reads as args.Name.        *)
(*                                                                         *)
(* The older XmlRPCClient at the top of src/xmlrpc-client.go is the other  *)
(* library a call may go through ("legacy"): it posts with http.Post to    *)
(* http://host:port/RPC2 and returns the error of a failed post.           *)
(***************************************************************************)
EXTENDS Sequences

CONSTANTS
    URLs,       \* server URLs: [ok |-> url.Parse succeeded, scheme |-> ...]
    Procs,      \* names of the daemon's processes
    Names,      \* names a user passes (Procs and at least one other)
    Changes,    \* the change argument of ChangeProcessState/ChangeAll...
    Signals     \* signal names

VARIABLES
    lib,        \* the client library: "xmlrpcclient" or "legacy"
    serverurl,  \* r.serverurl, fixed by NewXMLRPCClient
    pc,         \* "idle", "wire" (posted), "answered" (handler ran), "done",
                \* or "crashed" (supervisorctl panicked in the decoder)
    request,    \* the request on the wire: [method, name]
    answer,     \* the daemon's answer: "ok", "fault" or "bad" (non-2xx)
    ret         \* what the finished call returned: [err, reply]

vars == <<lib, serverurl, pc, request, answer, ret>>

\* The client API calls, with their arguments.
Calls ==
         [op : {"getVersion", "getAllProcessInfo", "shutdown", "reloadConfig"}]
    \cup [op : {"changeAllProcessState"}, change : Changes]
    \cup [op : {"changeProcessState"}, change : Changes, name : Names]
    \cup [op : {"getProcessInfo"}, name : Names]
    \cup [op : {"signalProcess"}, sig : Signals, name : Names]
    \cup [op : {"signalAll"}, sig : Signals]

\* The calls of the legacy XmlRPCClient.
LegacyCalls ==
         [op : {"getVersion", "getAllProcessInfo"}]
    \cup [op : {"changeProcessState"}, change : Changes, name : Names]

\* ChangeProcessState and ChangeAllProcessState refuse any change but
\* start and stop before posting.
Refused(c) ==
    c.op \in {"changeProcessState", "changeAllProcessState"} /\ c.change \notin {"start", "stop"}

\* The method name each call posts and the argument the handler reads as
\* args.Name.  SignalAll posts "supervisor.signalProcess" with the struct
\* {Signal}, so the handler's args.Name is the signal name.
Request(c) ==
    CASE c.op = "changeProcessState"    -> [method |-> c.change \o "Process", name |-> c.name]
      [] c.op = "changeAllProcessState" -> [method |-> c.change \o "AllProcesses", name |-> ""]
      [] c.op = "signalProcess"         -> [method |-> "signalProcess", name |-> c.name]
      [] c.op = "signalAll"             -> [method |-> "signalProcess", name |-> c.sig]
      [] c.op = "getProcessInfo"        -> [method |-> "getProcessInfo", name |-> c.name]
      [] OTHER                          -> [method |-> c.op, name |-> ""]

\* The handlers that fail with "no process named ..." for an unknown name.
LookupMethods == {"getProcessInfo", "startProcess", "stopProcess", "signalProcess"}

\* post: a malformed URL or a scheme other than http, https and unix is
\* printed and post returns without calling back.
Postable(url) == url.ok /\ url.scheme \in {"http", "https", "unix"}

\* The call returns without the callback having run: err nil, zero reply.
Silent == [err |-> FALSE, reply |-> "zero"]

\* What a call returns when the transport fails: xmlrpcclient's post
\* functions return without calling back; the legacy client returns the
\* error of http.Post (or of decoding a cut-off body).
Lost == IF lib = "legacy" THEN [err |-> TRUE, reply |-> "zero"] ELSE Silent

-----------------------------------------------------------------------------
Init ==
    /\ lib \in {"xmlrpcclient", "legacy"}
    /\ serverurl \in URLs
    /\ pc = "idle"
    /\ request = [method |-> "", name |-> ""]
    /\ answer = "none"
    /\ ret = Silent

\* A client API call: the change check, then post's URL checks, then
\* createHTTPRequest encodes the request (it cannot fail once url.Parse
\* has accepted the URL) and the request goes on the wire.
Call(c) ==
    /\ lib = "xmlrpcclient"
    /\ pc \in {"idle", "done"}
    /\ answer' = "none"
    /\ request' = Request(c)
    /\ \/ /\ Refused(c)
          /\ pc' = "done" /\ ret' = [err |-> TRUE, reply |-> "zero"]
       \/ /\ ~Refused(c) /\ ~Postable(serverurl)
          /\ pc' = "done" /\ ret' = Silent
       \/ /\ ~Refused(c) /\ Postable(serverurl)
          /\ pc' = "wire" /\ ret' = Silent
    /\ UNCHANGED <<lib, serverurl>>

\* A legacy call: the change check of ChangeProcessState, then the request
\* is encoded and posted to the fixed http URL.
LegacyCall(c) ==
    /\ lib = "legacy"
    /\ pc \in {"idle", "done"}
    /\ answer' = "none"
    /\ request' = Request(c)
    /\ \/ /\ Refused(c)
          /\ pc' = "done" /\ ret' = [err |-> TRUE, reply |-> "zero"]
       \/ /\ ~Refused(c)
          /\ pc' = "wire" /\ ret' = Silent
    /\ UNCHANGED <<lib, serverurl>>

\* The request never reaches a handler: Do fails (postInetHTTP), or
\* Dial, SetDeadline or Write fails (postUnixHTTP), or http.Post fails.
RequestLost ==
    /\ pc = "wire"
    /\ pc' = "done" /\ ret' = Lost
    /\ UNCHANGED <<lib, serverurl, request, answer>>

\* The daemon answers: the HTTP layer refuses it, or the handler runs and
\* succeeds, or fails its name lookup.
Serve ==
    /\ pc = "wire"
    /\ \E a \in {"bad", "fault"} \cup
               (IF request.method \in LookupMethods /\ request.name \notin Procs
                THEN {} ELSE {"ok"}) :
           answer' = a
    /\ pc' = "answered"
    /\ UNCHANGED <<lib, serverurl, request, ret>>

\* The reply is lost after the handler ran: Do times out under the
\* context deadline, or ReadResponse fails; the post functions return.
\* For the legacy client http.Post fails, or decoding the cut-off body.
ReplyLost ==
    /\ pc = "answered"
    /\ pc' = "done" /\ ret' = Lost
    /\ UNCHANGED <<lib, serverurl, request, answer>>

\* xmlrpcclient's GetVersion hands DecodeClientResponse its reply by value;
\* the codec (not under src/) reflects on it as a pointer, so a result it
\* cannot fill either fails or panics, ending supervisorctl.
VersionUndecodable == lib = "xmlrpcclient" /\ request.method = "getVersion"

\* ReloadConfig's callback runs ProcessXML on a 2xx body and never sets
\* err from it: a fault response leaves err nil and the three lists empty.
FaultUnread == lib = "xmlrpcclient" /\ request.method = "reloadConfig"

\* processResponse and the callback: a non-2xx status calls back with an
\* error; otherwise DecodeClientResponse sets err for a fault and fills
\* the reply for a result (ReloadConfig's reply is filled by its XML
\* callbacks, the Decoder module).  The legacy client decodes every body;
\* a non-2xx body is no XML-RPC response and fails to decode.
Receive ==
    /\ pc = "answered"
    /\ \/ /\ answer = "ok" /\ ~VersionUndecodable
          /\ pc' = "done" /\ ret' = [err |-> FALSE, reply |-> "server"]
       \/ /\ answer = "ok" /\ VersionUndecodable
          /\ \/ pc' = "done" /\ ret' = [err |-> TRUE, reply |-> "zero"]
             \/ pc' = "crashed" /\ UNCHANGED ret
       \/ /\ answer = "fault" /\ FaultUnread
          /\ pc' = "done" /\ ret' = Silent
       \/ /\ answer # "ok" /\ ~(answer = "fault" /\ FaultUnread)
          /\ pc' = "done" /\ ret' = [err |-> TRUE, reply |-> "zero"]
    /\ UNCHANGED <<lib, serverurl, request, answer>>

Next ==
    \/ \E c \in Calls : Call(c)
    \/ \E c \in LegacyCalls : LegacyCall(c)
    \/ RequestLost \/ Serve \/ ReplyLost \/ Receive

Spec == Init /\ [][Next]_vars

-----------------------------------------------------------------------------
TypeOK ==
    /\ lib \in {"xmlrpcclient", "legacy"}
    /\ pc \in {"idle", "wire", "answered", "done", "crashed"}
    /\ answer \in {"none", "ok", "fault", "bad"}
    /\ ret \in [err : BOOLEAN, reply : {"zero", "server"}]

\* A call that returns no error returns the daemon's reply: supervisorctl
\* reads a nil err as "the daemon answered", so a transport failure must
\* not come back as err == nil with a zero reply.  This is about the early
\* returns of post, postInetHTTP and postUnixHTTP, which skip the callback.
NoErrorMeansAnswered ==
    pc = "done" /\ ~ret.err => ret.reply = "server"

=============================================================================
