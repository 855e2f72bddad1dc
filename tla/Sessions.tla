------------------------------ MODULE Sessions ------------------------------
(***************************************************************************)
(* The session of one user: SSO tokens made by a company site              *)
(* (SsoTokenService, SsoController), the login form, and the cookie that   *)
(* any node validates and renews (JwtTicketDataFormat and the cookie       *)
(* options of Program.cs).                                                 *)
(*                                                                         *)
(* The site and the nodes have clocks of their own, which differ by        *)
(* constants.  Time is in seconds.  The permissions of the user may change *)
(* at any time: each token and each login has those of its moment.         *)
(***************************************************************************)
EXTENDS Integers

CONSTANTS
    Nodes,        \* servers behind the load balancer
    Site,         \* the company site
    Drift,        \* what two clocks differ by, at most
    Skew,         \* allowance: clockSkewSeconds, JwtTicketDataFormat.ClockSkew
    MaxAge,       \* SsoOptions.MaxAgeSeconds
    Lifetimes,    \* lifetimes that a site gives its tokens
    SessionSpan,  \* ExpireTimeSpan
    RightSets,    \* sets of permissions that the user ever has
    MaxNow        \* bound of the time

Clocks == Nodes \cup {Site}
FileActions == {"View", "Upload", "Edit", "Delete", "Download"}
Permissions == FileActions \cup {"AllCompanies"}

ASSUME TimesAssumption ==
    /\ Drift \in Nat /\ Skew \in Nat /\ MaxAge \in Nat /\ SessionSpan \in Nat
    /\ MaxNow \in Nat /\ Lifetimes \subseteq Nat
ASSUME SiteAssumption == Site \notin Nodes
ASSUME RightSetsAssumption == RightSets \subseteq SUBSET Permissions

VARIABLES
    now,       \* the time
    drift,     \* clock -> what it is ahead of the slowest
    token,     \* the token of the user
    cookie,    \* the cookie in the browser
    lastUse    \* history: when a node last answered the browser

vars == <<now, drift, token, cookie, lastUse>>

None == [is |-> "none"]

Read(clock) == now + drift[clock]

(* Two clocks that differ by no more than the allowance. *)
Near(a, b) == drift[a] - drift[b] \in -Skew .. Skew

----------------------------------------------------------------------------
(* Tokens.  born and lifetime are history.                                 *)

NewToken(lifetime, permissions) ==
    [is |-> "token", expires |-> Read(Site) + lifetime,
     permissions |-> permissions, born |-> now, lifetime |-> lifetime]

(* Mutant of TooLong: no allowance. *)
TooLongAtAll(n, t) == t.expires - Read(n) > MaxAge

(* Mutant of TooLong: no limit. *)
NeverTooLong(n, t) == FALSE

Expired(n, t) == t.expires < Read(n) - Skew
TooLong(n, t) == t.expires - Read(n) > MaxAge + Skew
Valid(n, t) == ~Expired(n, t) /\ ~TooLong(n, t)

(* Mutant of Granted: whatever the token says. *)
GrantedAll(permissions) ==
    IF permissions = {} THEN {"View"} ELSE permissions

(* Only the actions on files, and View when there are none. *)
Granted(permissions) ==
    LET actions == permissions \cap FileActions
    IN IF actions = {} THEN {"View"} ELSE actions

(* Cookies.  by, touched and login are history.                            *)
NewCookie(n, permissions, login) ==
    [is |-> "cookie", issued |-> Read(n), expires |-> Read(n) + SessionSpan,
     permissions |-> permissions, by |-> n, touched |-> now, login |-> login]

(* JwtTicketDataFormat.Unprotect, then the cookie handler, which has no    *)
(* allowance for the end.                                                  *)
NotYet(n, c) == c.issued > Read(n) + Skew
Accepts(n, c) ==
    /\ ~NotYet(n, c)
    /\ ~(c.expires < Read(n) - Skew)
    /\ ~(c.expires < Read(n))

(* Mutant of ShouldRenew: a session that does not slide. *)
NeverRenew(n, c) == FALSE

(* SlidingExpiration: past half of its time a cookie is made anew. *)
ShouldRenew(n, c) == c.expires - Read(n) < Read(n) - c.issued

(* Mutant of Renewed: the new time follows the old one. *)
RenewedAfterEnd(n, c) ==
    [c EXCEPT !.issued = Read(n), !.expires = c.expires + SessionSpan,
              !.by = n, !.touched = now]

Renewed(n, c) ==
    [c EXCEPT !.issued = Read(n),
              !.expires = Read(n) + (c.expires - c.issued),
              !.by = n, !.touched = now]

----------------------------------------------------------------------------
Init ==
    /\ now = 0
    /\ drift \in [Clocks -> 0 .. Drift]
    /\ token = None
    /\ cookie = None
    /\ lastUse = 0

Tick ==
    /\ now < MaxNow
    /\ now' = now + 1
    /\ UNCHANGED <<drift, token, cookie, lastUse>>

(* The site makes a token for the user, who uses no older one from then on. *)
Generate(lifetime, permissions) ==
    /\ token' = NewToken(lifetime, permissions)
    /\ UNCHANGED <<now, drift, cookie, lastUse>>

(* SsoController.Index.  The token stays valid.  The answer with the cookie *)
(* goes out after the audit entry: if that fails there is no session.      *)
SsoCookie(n) ==
    NewCookie(n, Granted(token.permissions),
              [via |-> "sso", at |-> now, born |-> token.born,
               lifetime |-> token.lifetime, held |-> token.permissions])

SsoSignIn(n) ==
    /\ token # None
    /\ Valid(n, token)
    /\ cookie' = SsoCookie(n)
    /\ lastUse' = now
    /\ UNCHANGED <<now, drift, token>>

(***************************************************************************)
(* AccountController.Login and Logout, and any other request.              *)
(***************************************************************************)

Login(n, permissions) ==
    /\ cookie' = NewCookie(n, permissions,
                     [via |-> "form", at |-> now, born |-> now, lifetime |-> 0,
                      held |-> permissions])
    /\ lastUse' = now
    /\ UNCHANGED <<now, drift, token>>

Logout(n) ==
    /\ cookie # None
    /\ Accepts(n, cookie)
    /\ cookie' = None
    /\ UNCHANGED <<now, drift, token, lastUse>>

(* A request whose answer arrives.  One whose answer is lost changes       *)
(* nothing, for a node keeps no sessions.                                  *)
Visit(n) ==
    /\ cookie # None
    /\ Accepts(n, cookie)
    /\ cookie' = IF ShouldRenew(n, cookie) THEN Renewed(n, cookie) ELSE cookie
    /\ lastUse' = now
    /\ UNCHANGED <<now, drift, token>>

Next ==
    \/ Tick
    \/ \E lifetime \in Lifetimes, permissions \in RightSets :
          Generate(lifetime, permissions)
    \/ \E n \in Nodes : SsoSignIn(n)
    \/ \E n \in Nodes, permissions \in RightSets : Login(n, permissions)
    \/ \E n \in Nodes : Logout(n)
    \/ \E n \in Nodes : Visit(n)

Spec == Init /\ [][Next]_vars
----------------------------------------------------------------------------
LoginType ==
    [via : {"sso", "form"}, at : Nat, born : Nat, lifetime : Nat,
     held : SUBSET Permissions]
CookieType ==
    [is : {"cookie"}, issued : Int, expires : Int,
     permissions : SUBSET Permissions, by : Nodes, touched : Nat,
     login : LoginType]

TypeOK ==
    /\ now \in Nat
    /\ drift \in [Clocks -> 0 .. Drift]
    /\ token \in {None} \cup [is : {"token"}, expires : Int,
                              permissions : SUBSET Permissions, born : Nat,
                              lifetime : Nat]
    /\ cookie \in {None} \cup CookieType
    /\ lastUse \in Nat

(* A token that is young enough by the clock of its site, with a lifetime  *)
(* that is allowed, is not rejected merely because the clocks of the site  *)
(* and of the node disagree (SsoTokenService.cs:71), at either end.        *)
NoFalseRejection ==
    token # None =>
       \A n \in Nodes :
          Near(Site, n) /\ token.lifetime <= MaxAge
                        /\ now - token.born <= token.lifetime
             => Valid(n, token)

(* However the clocks differ, a sign-on is later than the end of its token *)
(* by no more than the allowance and what clocks differ by, and earlier    *)
(* than that end by no more than these and MaxAgeSeconds: a token that     *)
(* lives longer is refused at first.                                       *)
SignOnsAreTimely ==
    cookie # None /\ cookie.login.via = "sso" =>
       LET login == cookie.login
           slack == Skew + Drift
       IN -slack <= login.born + login.lifetime - login.at
            /\ login.born + login.lifetime - login.at <= MaxAge + slack

(* Who comes back before half of the session has passed is signed in on    *)
(* every node whose clock differs from those of the others by no more than *)
(* the allowance, whichever nodes answered before.                         *)
ActiveUsersStaySignedIn ==
    cookie # None =>
       \A n \in Nodes :
          (\A m \in Nodes : Near(m, n))
            /\ 2 * (now - lastUse + Skew) <= SessionSpan
          => Accepts(n, cookie)

(* A cookie is accepted no longer than the span of a session after it was  *)
(* last made, but for what clocks differ by; renewals do not add up.       *)
IdleSessionsEnd ==
    cookie # None =>
       \A n \in Nodes :
          Accepts(n, cookie) => now - cookie.touched <= SessionSpan + Drift

(* A session has the permissions of its login, or the baseline, for as     *)
(* long as it is renewed; by single sign-on it never has all companies.    *)
SessionsHoldGrantedRights ==
    cookie # None =>
       /\ cookie.permissions \subseteq cookie.login.held \cup {"View"}
       /\ cookie.login.via = "sso" => /\ "AllCompanies" \notin cookie.permissions
                                      /\ cookie.permissions # {}
=============================================================================
