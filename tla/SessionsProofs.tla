--------------------------- MODULE SessionsProofs ---------------------------
(***************************************************************************)
(* Theorems about Sessions, for any number of nodes, any allowance, any    *)
(* difference of the clocks and any spans of time.                         *)
(***************************************************************************)
EXTENDS Sessions, TLAPS

(* The expiry of a token tells when and by which clock it was made.        *)
TokenMade ==
    token # None =>
       /\ token.born <= now
       /\ token.expires = token.born + drift[Site] + token.lifetime

(* The times of a cookie tell when it was last made and by which clock.    *)
CookieMade ==
    cookie # None =>
       /\ cookie.issued = cookie.touched + drift[cookie.by]
       /\ cookie.expires = cookie.issued + SessionSpan
       /\ cookie.touched <= lastUse

(* When a node answered last, half of the session was left on its clock:   *)
(* otherwise it would have made the cookie anew.                           *)
HalfLeft ==
    cookie # None =>
       \E m \in Nodes : 2 * (cookie.expires - (lastUse + drift[m])) >= SessionSpan

IInv ==
    /\ TypeOK
    /\ lastUse <= now
    /\ TokenMade
    /\ CookieMade
    /\ HalfLeft
    /\ SignOnsAreTimely
    /\ SessionsHoldGrantedRights

----------------------------------------------------------------------------
LEMMA DriftFact ==
    ASSUME TypeOK, NEW k \in Clocks
    PROVE  drift[k] \in Nat /\ drift[k] <= Drift
BY TimesAssumption DEF TypeOK

LEMMA CookieFact ==
    ASSUME TypeOK, cookie # None
    PROVE  /\ cookie \in CookieType
           /\ cookie.by \in Clocks
           /\ cookie.login \in LoginType
BY DEF TypeOK, CookieType, Clocks

LEMMA TokenFact ==
    ASSUME TypeOK, token # None
    PROVE  /\ token.expires \in Int /\ token.born \in Nat
           /\ token.lifetime \in Nat /\ token.permissions \subseteq Permissions
           /\ token.is = "token"
BY DEF TypeOK

LEMMA RenewedFact ==
    ASSUME NEW c \in CookieType, NEW i \in Int, NEW e \in Int,
           NEW b \in Nodes, NEW t \in Nat
    PROVE  [c EXCEPT !.issued = i, !.expires = e, !.by = b, !.touched = t]
              \in CookieType
BY DEF CookieType

----------------------------------------------------------------------------
(* A cookie that is made now and by n satisfies what is said of cookies.   *)
LEMMA MadeNow ==
    ASSUME IInv, NEW n \in Nodes, NEW permissions \in SUBSET Permissions,
           NEW login \in LoginType,
           cookie' = NewCookie(n, permissions, login),
           lastUse' = now, UNCHANGED <<now, drift, token>>
    PROVE  /\ TypeOK' /\ (lastUse <= now)' /\ TokenMade' /\ CookieMade'
           /\ HalfLeft'
           /\ cookie'.permissions = permissions /\ cookie'.login = login
<1>0. n \in Clocks /\ drift[n] \in Nat
  BY DriftFact DEF IInv, Clocks
<1>1. now \in Nat /\ SessionSpan \in Nat
  BY TimesAssumption DEF IInv, TypeOK
<1>2. /\ cookie'.issued = now + drift[n]
      /\ cookie'.expires = now + drift[n] + SessionSpan
      /\ cookie'.by = n /\ cookie'.touched = now
      /\ cookie'.permissions = permissions /\ cookie'.login = login
  BY DEF NewCookie, Read
<1>3. cookie' \in CookieType
  BY <1>0, <1>1 DEF NewCookie, Read, CookieType
<1>4. TypeOK'
  BY <1>1, <1>3 DEF IInv, TypeOK
<1>5. (lastUse <= now)'
  BY <1>1
<1>6. TokenMade'
  BY DEF IInv, TokenMade
<1>7. CookieMade'
  BY <1>0, <1>1, <1>2 DEF CookieMade
<1>8. HalfLeft'
  <2>1. 2 * (cookie'.expires - (lastUse' + drift'[n])) >= SessionSpan
    BY <1>0, <1>1, <1>2
  <2> QED
    BY <2>1 DEF HalfLeft
<1> QED
  BY <1>2, <1>4, <1>5, <1>6, <1>7, <1>8

LEMMA GrantedFact ==
    ASSUME NEW held \in SUBSET Permissions
    PROVE  /\ Granted(held) \subseteq held \cup {"View"}
           /\ Granted(held) \subseteq Permissions
           /\ "AllCompanies" \notin Granted(held)
           /\ Granted(held) # {}
BY DEF Granted, FileActions, Permissions

----------------------------------------------------------------------------
LEMMA InitInv == Init => IInv
<1> SUFFICES ASSUME Init PROVE IInv
  OBVIOUS
<1>1. TypeOK
  BY TimesAssumption DEF Init, TypeOK
<1>2. token = None /\ cookie = None /\ lastUse = 0 /\ now = 0
  BY DEF Init
<1> QED
  BY <1>1, <1>2 DEF IInv, TokenMade, CookieMade, HalfLeft, SignOnsAreTimely,
                    SessionsHoldGrantedRights

LEMMA TickInv == IInv /\ Tick => IInv'
<1> SUFFICES ASSUME IInv, Tick PROVE IInv'
  OBVIOUS
<1>1. /\ now \in Nat /\ now' = now + 1 /\ lastUse \in Nat
      /\ UNCHANGED <<drift, token, cookie, lastUse>>
  BY DEF IInv, TypeOK, Tick
<1>2. TypeOK'
  BY <1>1 DEF IInv, TypeOK
<1>3. (lastUse <= now)'
  BY <1>1 DEF IInv
<1>4. TokenMade'
  BY <1>1, TokenFact DEF IInv, TokenMade
<1>5. CookieMade' /\ HalfLeft' /\ SignOnsAreTimely' /\ SessionsHoldGrantedRights'
  BY <1>1 DEF IInv, CookieMade, HalfLeft, SignOnsAreTimely,
              SessionsHoldGrantedRights
<1> QED
  BY <1>2, <1>3, <1>4, <1>5 DEF IInv

LEMMA GenerateInv ==
    ASSUME IInv, NEW lifetime \in Lifetimes, NEW permissions \in RightSets,
           Generate(lifetime, permissions)
    PROVE  IInv'
<1>1. /\ lifetime \in Nat /\ permissions \in SUBSET Permissions
      /\ drift[Site] \in Nat /\ now \in Nat
  BY TimesAssumption, RightSetsAssumption, DriftFact DEF IInv, TypeOK, Clocks
<1>2. /\ token' = NewToken(lifetime, permissions)
      /\ UNCHANGED <<now, drift, cookie, lastUse>>
  BY DEF Generate
<1>3. TypeOK'
  BY <1>1, <1>2 DEF IInv, TypeOK, NewToken, Read
<1>4. TokenMade'
  BY <1>1, <1>2 DEF TokenMade, NewToken, Read
<1>5. /\ (lastUse <= now)' /\ CookieMade' /\ HalfLeft' /\ SignOnsAreTimely'
      /\ SessionsHoldGrantedRights'
  BY <1>2 DEF IInv, CookieMade, HalfLeft, SignOnsAreTimely,
              SessionsHoldGrantedRights
<1> QED
  BY <1>3, <1>4, <1>5 DEF IInv

LEMMA SsoSignInInv ==
    ASSUME IInv, NEW n \in Nodes, SsoSignIn(n)
    PROVE  IInv'
<1> DEFINE login == [via |-> "sso", at |-> now, born |-> token.born,
                     lifetime |-> token.lifetime, held |-> token.permissions]
<1>1. /\ token # None /\ Valid(n, token)
      /\ cookie' = NewCookie(n, Granted(token.permissions), login)
      /\ lastUse' = now /\ UNCHANGED <<now, drift, token>>
  BY DEF SsoSignIn, SsoCookie
<1>2. /\ token.expires \in Int /\ token.born \in Nat /\ token.lifetime \in Nat
      /\ token.permissions \in SUBSET Permissions /\ now \in Nat
  BY <1>1, TokenFact DEF IInv, TypeOK
<1>3. login \in LoginType /\ Granted(token.permissions) \in SUBSET Permissions
  BY <1>2, GrantedFact DEF LoginType
<1>4. /\ TypeOK' /\ (lastUse <= now)' /\ TokenMade' /\ CookieMade' /\ HalfLeft'
      /\ cookie'.permissions = Granted(token.permissions)
      /\ cookie'.login = login
  BY <1>1, <1>3, MadeNow
<1>5. SignOnsAreTimely'
  <2>1. /\ drift[n] \in Nat /\ drift[n] <= Drift
        /\ drift[Site] \in Nat /\ drift[Site] <= Drift
        /\ Skew \in Nat /\ Drift \in Nat /\ MaxAge \in Nat
    BY DriftFact, TimesAssumption DEF IInv, Clocks
  <2>2. token.expires = token.born + drift[Site] + token.lifetime
    BY <1>1 DEF IInv, TokenMade
  <2>3. /\ token.expires >= now + drift[n] - Skew
        /\ token.expires - (now + drift[n]) <= MaxAge + Skew
    BY <1>1, <1>2, <2>1 DEF Valid, Expired, TooLong, Read
  <2>4. /\ -(Skew + Drift) <= token.born + token.lifetime - now
        /\ token.born + token.lifetime - now <= MaxAge + (Skew + Drift)
    BY <1>2, <2>1, <2>2, <2>3
  <2> QED
    BY <1>4, <2>4 DEF SignOnsAreTimely
<1>6. SessionsHoldGrantedRights'
  BY <1>2, <1>4, GrantedFact DEF SessionsHoldGrantedRights
<1> QED
  BY <1>4, <1>5, <1>6 DEF IInv

LEMMA LoginInv ==
    ASSUME IInv, NEW n \in Nodes, NEW permissions \in RightSets,
           Login(n, permissions)
    PROVE  IInv'
<1> DEFINE login == [via |-> "form", at |-> now, born |-> now, lifetime |-> 0,
                     held |-> permissions]
<1>1. /\ cookie' = NewCookie(n, permissions, login)
      /\ lastUse' = now /\ UNCHANGED <<now, drift, token>>
  BY DEF Login
<1>2. permissions \in SUBSET Permissions /\ login \in LoginType
  BY RightSetsAssumption DEF IInv, TypeOK, LoginType
<1>3. /\ TypeOK' /\ (lastUse <= now)' /\ TokenMade' /\ CookieMade' /\ HalfLeft'
      /\ cookie'.permissions = permissions /\ cookie'.login = login
  BY <1>1, <1>2, MadeNow
<1>4. SignOnsAreTimely' /\ SessionsHoldGrantedRights'
  BY <1>3 DEF SignOnsAreTimely, SessionsHoldGrantedRights
<1> QED
  BY <1>3, <1>4 DEF IInv

LEMMA LogoutInv ==
    ASSUME IInv, NEW n \in Nodes, Logout(n)
    PROVE  IInv'
<1>1. cookie' = None /\ UNCHANGED <<now, drift, token, lastUse>>
  BY DEF Logout
<1> QED
  BY <1>1 DEF IInv, TypeOK, TokenMade, CookieMade, HalfLeft, SignOnsAreTimely,
              SessionsHoldGrantedRights

LEMMA VisitInv ==
    ASSUME IInv, NEW n \in Nodes, Visit(n)
    PROVE  IInv'
<1>1. /\ cookie # None /\ lastUse' = now /\ UNCHANGED <<now, drift, token>>
      /\ cookie' = IF ShouldRenew(n, cookie) THEN Renewed(n, cookie) ELSE cookie
  BY DEF Visit
<1>2. /\ cookie \in CookieType
      /\ cookie.issued \in Int /\ cookie.expires \in Int
      /\ cookie.touched \in Nat /\ cookie.by \in Clocks
      /\ now \in Nat /\ lastUse \in Nat /\ SessionSpan \in Nat
      /\ drift[n] \in Nat /\ drift[cookie.by] \in Nat
  BY <1>1, CookieFact, DriftFact, TimesAssumption
  DEF IInv, TypeOK, CookieType, Clocks
<1>3. /\ cookie.issued = cookie.touched + drift[cookie.by]
      /\ cookie.expires = cookie.issued + SessionSpan
      /\ cookie.touched <= lastUse /\ lastUse <= now
  BY <1>1 DEF IInv, CookieMade
<1>4. /\ cookie' \in CookieType
      /\ cookie'.login = cookie.login
      /\ cookie'.permissions = cookie.permissions
      /\ cookie'.issued = cookie'.touched + drift[cookie'.by]
      /\ cookie'.expires = cookie'.issued + SessionSpan
      /\ cookie'.touched <= now
      /\ 2 * (cookie'.expires - (now + drift[n])) >= SessionSpan
  <2>1. CASE ShouldRenew(n, cookie)
    <3>1. cookie' = Renewed(n, cookie)
      BY <1>1, <2>1
    <3>2. cookie' \in CookieType
      <4>1. /\ Read(n) \in Int
            /\ Read(n) + (cookie.expires - cookie.issued) \in Int
        BY <1>2 DEF Read
      <4> QED
        BY <3>1, <4>1, <1>2, RenewedFact DEF Renewed
    <3>3. /\ cookie'.issued = now + drift[n]
          /\ cookie'.expires = now + drift[n] + (cookie.expires - cookie.issued)
          /\ cookie'.by = n /\ cookie'.touched = now
          /\ cookie'.login = cookie.login
          /\ cookie'.permissions = cookie.permissions
      BY <3>1, <1>2 DEF Renewed, CookieType, Read
    <3> QED
      BY <3>2, <3>3, <1>2, <1>3
  <2>2. CASE ~ShouldRenew(n, cookie)
    <3>1. cookie' = cookie
      BY <1>1, <2>2
    <3>2. cookie.expires - (now + drift[n]) >= now + drift[n] - cookie.issued
      BY <2>2, <1>2 DEF ShouldRenew, Read
    <3> QED
      BY <3>1, <3>2, <1>2, <1>3
  <2> QED
    BY <2>1, <2>2
<1>5. TypeOK'
  BY <1>1, <1>2, <1>4 DEF IInv, TypeOK
<1>6. (lastUse <= now)' /\ TokenMade' /\ CookieMade' /\ HalfLeft'
  BY <1>1, <1>2, <1>4 DEF IInv, TokenMade, CookieMade, HalfLeft
<1>7. SignOnsAreTimely' /\ SessionsHoldGrantedRights'
  BY <1>1, <1>4 DEF IInv, SignOnsAreTimely, SessionsHoldGrantedRights
<1> QED
  BY <1>5, <1>6, <1>7 DEF IInv

LEMMA StepInv == IInv /\ [Next]_vars => IInv'
<1> SUFFICES ASSUME IInv, [Next]_vars PROVE IInv'
  OBVIOUS
<1>1. CASE UNCHANGED vars
  BY <1>1 DEF vars, IInv, TypeOK, TokenMade, CookieMade, HalfLeft,
              SignOnsAreTimely, SessionsHoldGrantedRights
<1>2. CASE Next
  BY <1>2, TickInv, GenerateInv, SsoSignInInv, LoginInv, LogoutInv, VisitInv
  DEF Next
<1> QED
  BY <1>1, <1>2

LEMMA Invariance == Spec => []IInv
<1> QED
  BY InitInv, StepInv, PTL DEF Spec

----------------------------------------------------------------------------
(* Whatever the clocks of other machines say: a token that is young enough *)
(* is accepted wherever the clock is within the allowance of the site's.   *)
THEOREM AcceptanceCorrectness == Spec => []NoFalseRejection
<1>1. IInv => NoFalseRejection
  <2> SUFFICES ASSUME IInv, token # None, NEW n \in Nodes, Near(Site, n),
                      token.lifetime <= MaxAge,
                      now - token.born <= token.lifetime
               PROVE  Valid(n, token)
    BY DEF NoFalseRejection
  <2>1. /\ drift[n] \in Nat /\ drift[Site] \in Nat /\ now \in Nat
        /\ Skew \in Nat /\ MaxAge \in Nat
    BY DriftFact, TimesAssumption DEF IInv, TypeOK, Clocks
  <2>2. /\ token.born \in Nat /\ token.lifetime \in Nat /\ token.born <= now
        /\ token.expires = token.born + drift[Site] + token.lifetime
    BY TokenFact DEF IInv, TokenMade
  <2>3. /\ -Skew <= drift[Site] - drift[n]
        /\ drift[Site] - drift[n] <= Skew
    BY <2>1 DEF Near
  <2>4. ~Expired(n, token)
    BY <2>1, <2>2, <2>3 DEF Expired, Read
  <2>5. ~TooLong(n, token)
    BY <2>1, <2>2, <2>3 DEF TooLong, Read
  <2> QED
    BY <2>4, <2>5 DEF Valid
<1> QED
  BY <1>1, Invariance, PTL

(* The window in which a token signs its user on.                          *)
THEOREM SignOnCorrectness == Spec => []SignOnsAreTimely
<1>1. IInv => SignOnsAreTimely
  BY DEF IInv
<1> QED
  BY <1>1, Invariance, PTL

(* Coming back within half of a session is enough on every node.           *)
THEOREM ActivityCorrectness == Spec => []ActiveUsersStaySignedIn
<1>1. IInv => ActiveUsersStaySignedIn
  <2> SUFFICES ASSUME IInv, cookie # None, NEW n \in Nodes,
                      \A m \in Nodes : Near(m, n),
                      2 * (now - lastUse + Skew) <= SessionSpan
               PROVE  Accepts(n, cookie)
    BY DEF ActiveUsersStaySignedIn
  <2>1. /\ now \in Nat /\ lastUse \in Nat /\ lastUse <= now
        /\ Skew \in Nat /\ SessionSpan \in Nat /\ drift[n] \in Nat
        /\ cookie.touched \in Nat /\ cookie.by \in Nodes
        /\ drift[cookie.by] \in Nat
        /\ cookie.expires \in Int
    BY CookieFact, DriftFact, TimesAssumption
    DEF IInv, TypeOK, CookieType, Clocks
  <2>2. PICK m \in Nodes :
           2 * (cookie.expires - (lastUse + drift[m])) >= SessionSpan
    BY DEF IInv, HalfLeft
  <2>3. /\ drift[m] \in Nat
        /\ drift[m] - drift[n] >= -Skew
        /\ drift[cookie.by] - drift[n] <= Skew
    BY <2>1, DriftFact DEF IInv, Near, Clocks
  <2>4. ~NotYet(n, cookie)
    BY <2>1, <2>3 DEF IInv, CookieMade, NotYet, Read
  <2>5. cookie.expires >= now + drift[n]
    BY <2>1, <2>2, <2>3
  <2> QED
    BY <2>1, <2>4, <2>5 DEF Accepts, Read
<1> QED
  BY <1>1, Invariance, PTL

(* An idle session ends, on every node, a span after it was last renewed.  *)
THEOREM IdlenessCorrectness == Spec => []IdleSessionsEnd
<1>1. IInv => IdleSessionsEnd
  <2> SUFFICES ASSUME IInv, cookie # None, NEW n \in Nodes, Accepts(n, cookie)
               PROVE  now - cookie.touched <= SessionSpan + Drift
    BY DEF IdleSessionsEnd
  <2>1. /\ now \in Nat /\ SessionSpan \in Nat /\ Drift \in Nat
        /\ drift[n] \in Nat /\ cookie.touched \in Nat
        /\ drift[cookie.by] \in Nat /\ drift[cookie.by] <= Drift
    BY CookieFact, DriftFact, TimesAssumption
    DEF IInv, TypeOK, CookieType, Clocks
  <2>2. /\ cookie.expires = cookie.touched + drift[cookie.by] + SessionSpan
        /\ cookie.expires >= now + drift[n]
    BY <2>1 DEF IInv, CookieMade, Accepts, Read
  <2> QED
    BY <2>1, <2>2
<1> QED
  BY <1>1, Invariance, PTL

(* No renewal adds a right, and single sign-on never gives all companies.  *)
THEOREM RightsCorrectness == Spec => []SessionsHoldGrantedRights
<1>1. IInv => SessionsHoldGrantedRights
  BY DEF IInv
<1> QED
  BY <1>1, Invariance, PTL
=============================================================================
