------------------------------ MODULE ToolGate ------------------------------
(***************************************************************************)
(* What the proxy's tools/call gate promises, without pages, requests,     *)
(* cursors or goroutines: the upstream presents declarations, the policy   *)
(* accepts some of them, and a tool may be called only while the list of   *)
(* verified tools holds it.  ProxySession implements this specification.   *)
(***************************************************************************)
CONSTANTS
    Tools,          \* tool names
    Declarations,   \* what the upstream may declare a tool to be
    Accepted,       \* the declarations the policy forwards
    Unseen,         \* the declaration of a tool that was never presented
    None

VARIABLES
    presented,      \* the declaration last presented for each tool
    verified,       \* the tools that may be called
    calling         \* the call admitted and on its way upstream

gateVars == <<presented, verified, calling>>

GateTypeOK ==
    /\ presented \in [Tools -> Declarations]
    /\ verified \subseteq Tools
    /\ calling \in Tools \cup {None}

GateInit ==
    /\ presented = [n \in Tools |-> Unseen]
    /\ verified = {}
    /\ calling = None

\* The tools S are presented with declarations the policy accepts: they join.
Accept(S) ==
    /\ verified' = verified \cup S
    /\ presented' \in [Tools -> Declarations]
    /\ \A n \in S : presented'[n] \in Accepted
    /\ \A n \in Tools \ S : presented'[n] = presented[n]
    /\ UNCHANGED calling

\* Anything is refused, whatever it presented: no tool stays verified.
Refuse ==
    /\ verified' = {}
    /\ presented' \in [Tools -> Declarations]
    /\ UNCHANGED calling

\* A call is admitted for a verified tool only, and takes a while to leave.
Admit(n) ==
    /\ n \in verified
    /\ calling = None
    /\ calling' = n
    /\ UNCHANGED <<presented, verified>>

Leave ==
    /\ calling' = None
    /\ UNCHANGED <<presented, verified>>

GateNext ==
    \/ \E S \in SUBSET Tools : Accept(S)
    \/ Refuse
    \/ \E n \in Tools : Admit(n)
    \/ Leave

GateSpec == GateInit /\ [][GateNext]_gateVars

\* A verified tool's last presented declaration is one the policy accepts.
VerifiedIsAccepted == \A n \in verified : presented[n] \in Accepted
=============================================================================
