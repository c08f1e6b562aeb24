------------------------------- MODULE Consent -------------------------------
(***************************************************************************)
(* What the identity site promises the user about the sites that use it,   *)
(* without keys, windows or messages.  The user grants a site a level for  *)
(* an account and may revoke it.  A site can have a signature without the  *)
(* user being asked only by virtue of a grant it was given and that no     *)
(* revocation has ended.  Revoking one account ends every older grant of   *)
(* the site, of other accounts too; they may be given anew at the levels   *)
(* that stand.  A site may always be told to ask the user.                 *)
(***************************************************************************)
EXTENDS Naturals

CONSTANTS
    Site,        \* the sites that ask for signatures
    Client,      \* their running instances
    SiteOf,      \* the site of an instance
    Account,
    Level,       \* the levels a user may grant, all above None
    Kind,        \* what a client may ask for
    NoAsk

None         == 0
ApproveAll   == 2
ApproveLarge == 3
Full         == 4

\* What the theorem about this module assumes of its parameters.
LevelsGrant == Level \subseteq Nat \ {None}

Grant == [account : Account, level : Level]
Ask   == [kind : Kind, grant : Grant]

VARIABLES
    current,     \* the level that stands for every site and account
    granted,     \* the grants a site can still have signatures with
    asked,       \* what a client is waiting to be told
    answer       \* and what it was told last

vars == <<current, granted, asked, answer>>

\* What a level lets a site do without asking (types/identity.ts, log-in.html):
\* ApproveAll nothing but prove who the user is, ApproveLarge also to post,
\* message, like and follow without paying anybody, Full anything.
Permits(level, kind) ==
    \/ kind = "jwt"    /\ level >= ApproveAll
    \/ kind = "social" /\ level >= ApproveLarge
    \/ kind # "unparsable" /\ level >= Full

\* The grants that could be given to a site now.
Standing(s) ==
    {g \in Grant : g.level = current[s][g.account]}

NoNewGrants == granted' \in [Site -> SUBSET Grant] /\ \A s \in Site : granted'[s] \subseteq granted[s]

\* A flow ends at site s: what stands there may be granted (again).
Regrant(s) ==
    /\ granted' \in [Site -> SUBSET Grant]
    /\ \A r \in Site : granted'[r] \subseteq granted[r] \cup (IF r = s THEN Standing(s)' ELSE {})

LogIn(s, a, l) ==
    /\ current' = [current EXCEPT ![s][a] = l]
    /\ Regrant(s)
    /\ UNCHANGED <<asked, answer>>

LogOut(s, a) ==
    /\ current' = [current EXCEPT ![s][a] = None]
    /\ Regrant(s)
    /\ granted'[s] \subseteq Standing(s)'
    /\ UNCHANGED <<asked, answer>>

Reissue(s) ==
    /\ current' = current
    /\ Regrant(s)
    /\ UNCHANGED <<asked, answer>>

AskFor(c) ==
    /\ asked[c] = NoAsk
    /\ \E ask \in Ask : asked' = [asked EXCEPT ![c] = ask]
    /\ answer' = [answer EXCEPT ![c] = "pending"]
    /\ NoNewGrants
    /\ UNCHANGED current

\* Signing without asking the user.
Sign(c) ==
    /\ asked[c] # NoAsk
    /\ asked[c].grant \in granted[SiteOf[c]]
    /\ Permits(asked[c].grant.level, asked[c].kind)
    /\ asked' = [asked EXCEPT ![c] = NoAsk]
    /\ answer' = [answer EXCEPT ![c] = "signed"]
    /\ NoNewGrants
    /\ UNCHANGED current

AskTheUser(c) ==
    /\ asked[c] # NoAsk
    /\ asked' = [asked EXCEPT ![c] = NoAsk]
    /\ answer' = [answer EXCEPT ![c] = "approvalRequired"]
    /\ NoNewGrants
    /\ UNCHANGED current

\* A request may be lost, with its client or alone.
Lose(c) ==
    /\ asked' = [asked EXCEPT ![c] = NoAsk]
    /\ answer' \in {answer, [answer EXCEPT ![c] = "none"]}
    /\ NoNewGrants
    /\ UNCHANGED current

\* The user forgets all sites.
ForgetAll ==
    /\ current' = [s \in Site |-> [a \in Account |-> None]]
    /\ granted' = [s \in Site |-> {}]
    /\ UNCHANGED <<asked, answer>>

Init ==
    /\ current = [s \in Site |-> [a \in Account |-> None]]
    /\ granted = [s \in Site |-> {}]
    /\ asked = [c \in Client |-> NoAsk]
    /\ answer = [c \in Client |-> "none"]

Next ==
    \/ ForgetAll
    \/ \E s \in Site : \/ Reissue(s)
                       \/ \E a \in Account : LogOut(s, a) \/ \E l \in Level : LogIn(s, a, l)
    \/ \E c \in Client : AskFor(c) \/ Sign(c) \/ AskTheUser(c) \/ Lose(c)

Spec == Init /\ [][Next]_vars

----------------------------------------------------------------------------
TypeOK ==
    /\ current \in [Site -> [Account -> Level \cup {None}]]
    /\ granted \in [Site -> SUBSET Grant]
    /\ asked \in [Client -> Ask \cup {NoAsk}]
    /\ answer \in [Client -> {"none", "pending", "signed", "approvalRequired"}]

\* A site can have signatures without asking only for accounts at some level
\* there: a logout (logout.component.ts) leaves it no grant of the account.
GrantsAreOfLoggedIn ==
    \A s \in Site : \A g \in granted[s] : current[s][g.account] # None
=============================================================================
