----------------------------- MODULE HttpServer -----------------------------
(***************************************************************************)
(* The HTTP layer (Serve in pkg/http/http.go): every request passes the    *)
(* middlewares and is then routed by its path, to the MCP server, to an    *)
(* infrastructure endpoint or to the well-known proxy, while the SIGHUP    *)
(* handler publishes configurations and takes them back.  The MCP server   *)
(* itself is ServerReload and RequestLimits.                               *)
(***************************************************************************)
EXTENDS WellKnown

vars == <<publishedVars, auth, wellKnownVars>>

TypeOK == PublishedTypeOK /\ AuthTypeOK /\ WellKnownTypeOK

Init == PublishedInit /\ AuthInit /\ WellKnownInit

\* The token matters to a request for /mcp only.
Arrive(r) ==
    /\ \E path \in Paths, token \in Tokens \cup {NoToken} :
         /\ path # "mcp" => token = NoToken
         /\ Enter(r, path, token)
    /\ UNCHANGED <<publishedVars, wellKnownVars>>

Check(r) == Verify(r) /\ UNCHANGED <<publishedVars, wellKnownVars>>

\* The mux: /.well-known/ goes to the proxy.
Routed(r) == auth[r].pc = "admitted" /\ auth[r].path = "wellKnown"

Proxy(r) ==
    /\ Routed(r)
    /\ \E ep \in Endpoints : Serve(r, ep)
    /\ UNCHANGED <<publishedVars, auth>>

ProxySteps(r) ==
    /\ \/ \E a \in Answers : FetchDirect(r, a)
       \/ LookUp(r)
       \/ Join(r)
       \/ TakeResult(r)
       \/ Override(r)
    /\ UNCHANGED <<publishedVars, auth>>

Flights(u) ==
    /\ \E a \in Answers : EndFlight(u, a)
    /\ UNCHANGED <<publishedVars, auth>>

\* The response has been written: the proxy's, or another handler's.
Respond(r) ==
    /\ Leave(r)
    /\ IF Routed(r) THEN Finish(r) ELSE UNCHANGED wellKnownVars
    /\ UNCHANGED publishedVars

\* What happens outside the layer: reloads, clients that go away, time.
Reloads == Reload /\ NoteReload

GoesAway(r) == ClientGoesAway(r) /\ UNCHANGED <<publishedVars, auth>>

Time == Tick /\ UNCHANGED <<publishedVars, auth>>

Next ==
    \/ \E r \in Requests : \/ Arrive(r)
                          \/ Check(r)
                          \/ Proxy(r)
                          \/ ProxySteps(r)
                          \/ Respond(r)
                          \/ GoesAway(r)
    \/ \E u \in URLs : Flights(u)
    \/ Reloads
    \/ Time

Spec == Init /\ [][Next]_vars

-----------------------------------------------------------------------------
\* A request is failed for a cause of its own: a reload it met or an upstream
\* that failed it, never for what another request or an earlier reload did.
FailsOnlyForCause == UnavailableOnlyInReload /\ FailsOnlyWithUpstream
=============================================================================
