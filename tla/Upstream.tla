------------------------------ MODULE Upstream ------------------------------
(***************************************************************************)
(* From the configuration to one SSH connection: a line of the servers     *)
(* file becomes an SSHServer (config/servers.go), which offers ways to     *)
(* authenticate (sshserver.go), which is dialled through the child process *)
(* of a ProxyCommand or directly (sshclient.go, commandconn.go).  The      *)
(* health check and the pool that decide when to dial and close are        *)
(* RoundRobin's.                                                           *)
(***************************************************************************)
EXTENDS Settings

VARIABLES
    stage,      \* "config", "fatal", or what the SSHClient is up to:
                \* "down", "handshake" (through the child), "direct",
                \* "proxied" or "connected"
    server,     \* the SSHServer
    child       \* the process of the ProxyCommand: "none", "running", or
                \* "exited" until somebody waits for it

vars == <<settings, stage, server, child>>

Server == [AuthMethod : {"key", "password", "proxycommand"},
           KeyPath : BOOLEAN, Password : BOOLEAN, runnable : BOOLEAN]
NoServer == [AuthMethod |-> "key", KeyPath |-> FALSE, Password |-> FALSE, runnable |-> FALSE]

(* A line after it is split at its colons, and what the configuration and  *)
(* the home directory add; "blank" is a command of which nothing is left.  *)
Line == [host : BOOLEAN, port : {"none", "number", "junk"},
         password : {"none", "-", "text"}, rest : BOOLEAN]
Account == [KeyFile : BOOLEAN, ProxyCommand : {"", "blank", "command"},
            Cloudflared : BOOLEAN, defaultKey : BOOLEAN]

Init ==
    /\ SettingsInit
    /\ stage = "config" /\ server = NoServer /\ child = "none"

Configure == stage = "config" /\ SettingsNext /\ UNCHANGED <<stage, server, child>>

-----------------------------------------------------------------------------
(* parseServerLine *)

Go(from, to) == stage = from /\ stage' = to

WellFormed(l) == l.host /\ l.port # "junk" /\ ~l.rest

Proxied(a) == a.Cloudflared \/ a.ProxyCommand # ""

(* Mutant: the default key is looked for behind a ProxyCommand only.       *)
DefaultKeyUsedProxied(l, a) ==
    a.defaultKey /\ ~a.KeyFile /\ l.password # "text" /\ Proxied(a)

DefaultKeyUsed(l, a) == a.defaultKey /\ ~a.KeyFile /\ l.password # "text"

AuthMethodOf(l, a) ==
    IF Proxied(a) THEN "proxycommand"
    ELSE IF a.KeyFile \/ l.password # "text" THEN "key" ELSE "password"

(* -cf without a command, a line that cannot be read, or one that leaves   *)
(* nothing to authenticate with, ends the program; behind a ProxyCommand   *)
(* the last is let through.                                                *)
Accepted(l, a) ==
    /\ a.Cloudflared => a.ProxyCommand # ""
    /\ WellFormed(l)
    /\ Proxied(a) \/ a.KeyFile \/ l.password = "text" \/ a.defaultKey

ParseServersFile ==
    /\ Ready
    /\ \E l \in Line, a \in Account :
          IF Accepted(l, a)
          THEN /\ Go("config", "down")
               /\ server' = [AuthMethod |-> AuthMethodOf(l, a),
                             KeyPath |-> a.KeyFile \/ DefaultKeyUsed(l, a),
                             Password |-> l.password = "text",
                             runnable |-> a.ProxyCommand = "command"]
          ELSE Go("config", "fatal") /\ UNCHANGED server
    /\ UNCHANGED <<settings, child>>

-----------------------------------------------------------------------------
(* connect *)

Methods(s) ==
    {m \in {"publickey", "password"} :
        \/ m = "publickey" /\ s.KeyPath /\ s.AuthMethod # "password"
        \/ m = "password" /\ s.Password /\ s.AuthMethod # "key"}

(* Config() has something to offer, its key file can be read, and the      *)
(* command starts; without a command that starts the server is dialled     *)
(* directly.                                                               *)
Connect ==
    /\ Methods(server) # {}
    /\ \/ server.AuthMethod = "proxycommand" /\ server.runnable
          /\ Go("down", "handshake") /\ child' = "running"
       \/ Go("down", "direct") /\ UNCHANGED child
    /\ UNCHANGED <<settings, server>>

(* Mutant: the connection is given up and its child left alone.            *)
CloseConnLeaves == UNCHANGED child

(* commandConn.Close, once: the child is killed and waited for.            *)
CloseConn == child' = "none"

HandshakeEnds ==
    /\ \/ child = "running" /\ Go("handshake", "proxied") /\ UNCHANGED child
       \/ Go("handshake", "direct") /\ CloseConn
    /\ UNCHANGED <<settings, server>>

DirectDialEnds ==
    /\ Go("direct", "connected") \/ Go("direct", "down")
    /\ UNCHANGED <<settings, server, child>>

Close ==
    /\ \/ Go("proxied", "down") /\ CloseConn
       \/ Go("connected", "down") /\ UNCHANGED child
    /\ UNCHANGED <<settings, server>>

ChildExits ==
    /\ child = "running"
    /\ child' = "exited"
    /\ UNCHANGED <<settings, stage, server>>

Next == Configure \/ ParseServersFile \/ Connect \/ HandshakeEnds \/ DirectDialEnds
        \/ Close \/ ChildExits

Spec == Init /\ [][Next]_vars

-----------------------------------------------------------------------------
(* Properties *)

UpstreamTypeOK ==
    /\ SettingsTypeOK
    /\ stage \in {"config", "fatal", "down", "handshake", "direct", "proxied", "connected"}
    /\ server \in Server
    /\ child \in {"none", "running", "exited"}
    /\ stage # "config" => Ready
    /\ server.AuthMethod = "password" => server.Password

(* However often an upstream is dialled, lost and dialled again, there is  *)
(* a child process only behind a handshake or a connection in use: none is *)
(* left running by a failed handshake, none is left as a zombie by a       *)
(* fallback, and never are there two.                                      *)
NoChildLeft == child # "none" => stage \in {"handshake", "proxied"}

(* A line that is accepted can be authenticated with, but for one case: a  *)
(* ProxyCommand with neither a key nor a password, which is accepted at    *)
(* the start and whose every dial fails (sshserver.go:76).                 *)
CanAuthenticate ==
    stage = "down" =>
        \/ Methods(server) # {}
        \/ server.AuthMethod = "proxycommand" /\ ~server.KeyPath /\ ~server.Password

=============================================================================
