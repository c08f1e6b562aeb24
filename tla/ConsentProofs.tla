---------------------------- MODULE ConsentProofs ----------------------------
(***************************************************************************)
(* The promise of Consent keeps what a user would expect of it, for any    *)
(* sites, clients, accounts and levels: a site has grants only of accounts *)
(* that are at some level there.                                           *)
(***************************************************************************)
EXTENDS Consent, TLAPS

ConsentInv == TypeOK /\ GrantsAreOfLoggedIn

\* What stands at a site is of an account at some level there.
LEMMA StandingIsLoggedIn ==
    ASSUME LevelsGrant, NEW s \in Site, NEW g \in Standing(s)'
    PROVE  g \in Grant /\ current'[s][g.account] # None
BY DEF LevelsGrant, Standing, Grant, None

\* Every step that ends a flow adds standing grants only, so if no grant that
\* was there lost its account's level, the invariant is kept.
LEMMA RegrantKeepsInv ==
    ASSUME LevelsGrant, NEW s \in Site, Regrant(s),
           \A r \in Site : \A g \in granted'[r] \cap granted[r] :
               current'[r][g.account] # None \/ g \in Standing(r)'
    PROVE  GrantsAreOfLoggedIn' /\ granted' \in [Site -> SUBSET Grant]
<1> SUFFICES ASSUME NEW r \in Site, NEW g \in granted'[r]
             PROVE  current'[r][g.account] # None
    BY DEF GrantsAreOfLoggedIn, Regrant
<1>1. g \in granted[r] \/ g \in Standing(r)'
    BY DEF Regrant
<1>2. CASE g \in Standing(r)'
    BY <1>2, StandingIsLoggedIn
<1>3. CASE g \in granted[r]
    BY <1>3, StandingIsLoggedIn
<1>. QED  BY <1>1, <1>2, <1>3

\* A step that grants nothing and changes no level keeps the invariant.
LEMMA NoNewGrantsKeepsInv ==
    ASSUME ConsentInv, NoNewGrants, UNCHANGED current
    PROVE  GrantsAreOfLoggedIn' /\ granted' \in [Site -> SUBSET Grant]
BY DEF ConsentInv, NoNewGrants, GrantsAreOfLoggedIn

LEMMA ConsentStep ==
    ASSUME LevelsGrant, ConsentInv, [Next]_vars
    PROVE  ConsentInv'
<1> USE DEF ConsentInv, TypeOK
<1>1. CASE ForgetAll
    BY <1>1 DEF ForgetAll, GrantsAreOfLoggedIn
<1>2. ASSUME NEW s \in Site, Reissue(s)  PROVE ConsentInv'
    <2>1. GrantsAreOfLoggedIn' /\ granted' \in [Site -> SUBSET Grant]
        BY <1>2, RegrantKeepsInv DEF Reissue, GrantsAreOfLoggedIn
    <2>. QED  BY <1>2, <2>1 DEF Reissue
<1>3. ASSUME NEW s \in Site, NEW a \in Account, LogOut(s, a)  PROVE ConsentInv'
    <2>1. ASSUME NEW r \in Site, NEW g \in granted'[r] \cap granted[r]
          PROVE  current'[r][g.account] # None \/ g \in Standing(r)'
        <3>1. CASE r = s
            BY <1>3, <2>1, <3>1 DEF LogOut
        <3>2. CASE r # s
            BY <1>3, <2>1, <3>2 DEF LogOut, GrantsAreOfLoggedIn
        <3>. QED  BY <3>1, <3>2
    <2>2. GrantsAreOfLoggedIn' /\ granted' \in [Site -> SUBSET Grant]
        BY <1>3, <2>1, RegrantKeepsInv DEF LogOut
    <2>. QED  BY <1>3, <2>2 DEF LogOut
<1>4. ASSUME NEW s \in Site, NEW a \in Account, NEW l \in Level, LogIn(s, a, l)
      PROVE  ConsentInv'
    <2>1. ASSUME NEW r \in Site, NEW g \in granted'[r] \cap granted[r]
          PROVE  current'[r][g.account] # None
        <3>1. current[r][g.account] # None /\ g.account \in Account
            BY <2>1 DEF GrantsAreOfLoggedIn, Grant
        <3>2. l # None
            BY DEF LevelsGrant
        <3>. QED  BY <1>4, <3>1, <3>2 DEF LogIn
    <2>2. GrantsAreOfLoggedIn' /\ granted' \in [Site -> SUBSET Grant]
        BY <1>4, <2>1, RegrantKeepsInv DEF LogIn
    <2>. QED  BY <1>4, <2>2 DEF LogIn
<1>5. ASSUME NEW c \in Client, AskFor(c)  PROVE ConsentInv'
    BY <1>5, NoNewGrantsKeepsInv DEF AskFor
<1>6. ASSUME NEW c \in Client, Sign(c)  PROVE ConsentInv'
    BY <1>6, NoNewGrantsKeepsInv DEF Sign
<1>7. ASSUME NEW c \in Client, AskTheUser(c)  PROVE ConsentInv'
    BY <1>7, NoNewGrantsKeepsInv DEF AskTheUser
<1>8. ASSUME NEW c \in Client, Lose(c)  PROVE ConsentInv'
    BY <1>8, NoNewGrantsKeepsInv DEF Lose
<1>9. CASE UNCHANGED vars
    BY <1>9 DEF vars, GrantsAreOfLoggedIn
<1>. QED  BY <1>1, <1>2, <1>3, <1>4, <1>5, <1>6, <1>7, <1>8, <1>9 DEF Next

\* For any sites and accounts, a site can have signatures without asking only
\* for accounts at some level there.
THEOREM GrantsFollowConsent ==
    ASSUME LevelsGrant
    PROVE  Spec => []GrantsAreOfLoggedIn
<1>1. Init => ConsentInv
    BY DEF Init, ConsentInv, TypeOK, GrantsAreOfLoggedIn
<1>2. ConsentInv => GrantsAreOfLoggedIn
    BY DEF ConsentInv
<1>3. ConsentInv /\ [Next]_vars => ConsentInv'
    BY ConsentStep
<1>. QED  BY <1>1, <1>2, <1>3, PTL DEF Spec
=============================================================================
