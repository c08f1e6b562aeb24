# A verification development for the web wallet

This directory holds TLA+ models of the LBRY web wallet (an identity site that
keeps the user's keys and signs for other sites), of the library and demo app
that use it, and of the demo backend; the TLC configurations that check them on
small instances; and proofs, checked by TLAPS, that hold for every instance.
Paths below are relative to `src/`; in `PROJECT.json`, `map` gives for every
definition the lines it stands for.

## The system

Three programs run at a user's site visit.

    host's web app  (example/frontend)          identity site  (src/app)
    +-----------------------------+  postMessage  +----------------------+
    | identity.service (client)   |<------------->| iframe: sign, jwt,   |
    |   pending/outbound requests |               |   info               |
    |   identityServiceUsers      |<--------------| popups: log-in, ...  |
    | spend-lbc page              |   "login"     |  localStorage: seeds,|
    +--------------+--------------+               |  levels, keys, wallet|
                   | HTTP                         +----------------------+
            demo backend (example/backend) ---- electrum server, daemon

### Inventory

| Component | State | Operations | Hard behaviour | What makes it correct |
|---|---|---|---|---|
| Identity vault: `account.service`, `crypto.service`, `identity.service`, log-in, logout and approve pages | seeds; level per host and account; one encryption key per host; the credentials hosts hold | log in, load or make an account, log out, approve; sign, jwt | several tabs, windows and iframes share the storage; a credential outlives the window that issued it, in memory, storage, messages and requests | a logout revokes; credentials of a host open there alone; nothing is signed unasked that the level does not permit; a logout leaves the other accounts with working credentials |
| Channel: the client's and the site's `identity.service` | pending and outbound requests; the remembered window and its promise | initialize and its acknowledgement, info, requests and answers, launch, login | start-up of several instances in any order; messages to a page that does not listen; answers that overtake each other | nothing is posted to the deaf; every answer has a promise, every request an answer; the hostname comes first |
| Sign-up and load-seed pages, entropy service | phrase, passphrase and entropy, shared by visits; errors of a page | regenerate, edit either advanced field, next, back, verify, load | fields rewrite each other; errors are forgotten when the page is left, the phrase is not | every stored account can be loaded again from what is stored |
| Variable-length integers (`lib/bindata/util.ts`) | none | read, write | 32 bit shifts, ends of buffers | what is written is read |
| Transaction codec (`lib/bindata`, `lib/deso/transaction.ts`), `signTransaction` | none | parse, serialize, sign | unknown types, missing and trailing bytes, the slice before signing | nothing broken is signed; what is signed reads back as what was sent |
| Approve page's description (`approve.component.ts`, `backend-api.service.ts`) | the transaction, its description, answers of two HTTP calls | open, describe, allow, cancel | answers after the user has decided, or none | the user allows what a node will read |
| Storage shared by windows and iframe (`account.service`, `crypto.service`, `embed.component.ts`) | accounts and levels as whole values; the host's key, in Safari in cookies of which the iframe may have its own | read, write back; get or make a key; tap to unlock | windows in different processes overlap; the iframe's home of keys moves while requests are under way | what is revoked stays revoked; undisturbed writes stay; the iframe reads the keys the windows write |
| Payment page (`spend-lbc`), wallet windows (`test-lbry-log-in`, `test-sign-transaction`), `signPSBT` | the fields shown; the stored wallet | make PSBT, log in, submit | answers in any order; lost answers; errors that belong to another request | only what was shown is paid, at the fee shown |
| Demo backend (`main.go`) | none (the node's) | PSBT, decode, broadcast | boundary of the amount; ordering of inputs; errors half way | a PSBT pays what was asked, and is marked if its fee is absurd |
| Banner, home, error, text pages; ECIES; vendored code, assets, scaffolding | display or none | | | not modelled |

`PROJECT.json` lists under `hazards` where in the code each of these can go
wrong, and which property would show it.

## Modules

**Consent** is the abstract promise to the user: sites, accounts, levels, grants
and requests, with neither keys nor windows nor messages. **IdentityVault** is
the code that implements it; its instance `Promise` of Consent reads grants off
the credentials a host's tabs still hold and that still open. The proofs are in
**ConsentProofs** and **IdentityVaultProofs**.

*IdentityVault.* `users`, `levels` and `seedHexKey` are the localStorage of the
identity origin. `window[t]` is the popup a tab has open; `posted[t]` the login
messages on their way (two, if the user clicks twice before the window closes);
`identityServiceUsers[t]` and `storedUsers[h]` the credentials in a tab's memory
and the host's storage; `request[t]` the one on its way to the iframe. Each
handler is an action: `SelectAccount`, `ClickLoadAccount`, `StepTwoNext`,
`LogoutSubmit`, `ApproveSubmit` and `ApproveThrows` (the account was logged out
meanwhile: the window stays) for the pages, `FinishFlow` for what ends a
page's work, `HandleSign`, `HandleJwt`, `HandleUnparsable` for the iframe,
`DeliverLogin`, `Reload` and `SendRequest` for the client, `ClearSiteData` for
the user. Keys are numbers handed out in order: encryption is ideal, and a wrong
key yields `Garbage`.

**IdentityChannel** takes the credentials away and looks at the messages: the
start-up of the iframe and of popups, requests made before the iframe exists,
the `info` request that awaits the browser, launches and the login message.
`beside[p]` is there for a property alone: the windows that might still log in
when `p` was launched.
`toInstance[i]` and `toClient[i]` are first-in first-out, those of different
instances independent. Proofs: **IdentityChannelProofs**.

**SignUp** is the sign-up page, step by step, with the entropy service that
outlives it and the load-seed page. Phrases are named by their entropy. Proofs:
**SignUpProofs**.

**Uvarint64** reads and writes the variable-length integer byte by byte. Numbers
are sets of bit positions, so `|` is a union, and a shift by `s` on a 32 bit
word adds `s` modulo 32 and drops what leaves the word. Proofs:
**Uvarint64Proofs**.

**PsbtService** is what the backend promises, as a function of an address's
outputs and an amount. **BackendPsbt** is `getPSBT` one loop turn, command and
fetch at a time; its specification is `RequestSpec`. What the daemon prints may
not be base64, an error that `makePsbt` only logs: `NoPsbt` also stands for the
hex, empty or cut short, that is answered then. **SpendLBC** composes
PsbtService with the payment page, the wallet windows and a node that accepts,
refuses, and loses answers. A wallet is a list of accounts. `SaveWallet` stores it
before `getAddresses` reads those accounts whose generator is `single-address`
(and perhaps throws, which leaves the page with the address it had);
`SignTransaction` looks for the page's address among the keys of all accounts of
the wallet stored by then (`HasSigningKey`), whatever the page was told of it. The
proofs about both, and that the one answers as
the other expects, are in **PaymentProofs**.

**DeSoTransaction** lists the classes of a transaction, each with its fields and
their transcoders; **BinaryRecord** reads and writes them, bytes being numbers in
a sequence and a read either yielding a value and the rest or throwing.
**TransactionApproval** follows one transaction through the iframe (`HandleSign`)
and the approve page (`NgOnInit`, the node's answers, `OnSubmit`, `OnCancel`,
and another window that logs the account out); it takes the codec as a
parameter. A description is a sequence of words: fixed texts, accounts, amounts,
and names put in place of accounts. `sent` says how the bytes came about, so
that properties can tell what was meant from what was sent. Proofs:
**TransactionApprovalProofs**.

**IdentityStorage** has the operations of IdentityVault again, for one host, but
a read or write of storage at a time, so that windows may overlap: `window[w]`
is how far a window's handler is and what it has read. `seedHexKey` has two
jars, the site's and the one Safari gives the iframe until the user's tap
(`TapToUnlock`, `RequestStorageAccess`, `StorageGranted`). `settled` and
`revoked` record what happened, for the properties alone: the level that an
account's last log-in or logout stored if no other window was at work meanwhile,
and the keys that logouts replaced. Proofs: **IdentityStorageProofs**.

The `MC*` modules give the constants values. Definitions whose comment begins
"Faulty variant" are plausible bugs in the operation that follows them; none is
used by a specification, and each makes one property fail when put in its place.

## Runs

| Run | Instance | What it shows |
|---|---|---|
| `vault_two_hosts` | 2 hosts with a tab each, 1 seed, the levels `ApproveAll` (2) and `ApproveLarge` (3), 2 kinds of request (a post that pays nobody, which level 3 signs unasked; one that pays somebody, which it must not), 2 keys, at most 2 things in motion, fairness | `KeysStayWithHost`; the inductive `VaultInv`; `SignsOnlyAsPermitted`: what is signed unasked is permitted; `RequestsAreAnswered` |
| `vault_keeps_promise` | 2 tabs of one host, 2 seeds, the lowest level, requests for a jwt and requests that cannot be parsed, at most 2 things in motion | `LiveCredentialsAreLoggedIn`: a logout revokes wherever a credential is; `OnlyLogoutReplacesKeys`: working credentials end in no other way, and a logout leaves the other accounts working ones; `KeepsThePromise`: IdentityVault implements Consent |
| `vault_stored_level` (violation) | 2 tabs of one host, 1 seed, a low and a high level, transfers only, 2 keys | an older credential outranks the level stored since |
| `channel` | iframe and 2 popups, 3 requests, one malformed, fairness | hostname first, nobody deaf addressed, answers awaited; `LoginsAnswerTheirLaunch`: a launch is answered by its own window or by one that was about when it was made; requests are resolved, windows get ready |
| `sign_up` | 3 random and 1 own entropy, one too long, 3 passphrases, 2 visits | stored accounts load again, with the inductive `SignUpInv`; no phrase in two visits; phrase and entropy belong together |
| `uvarint` | numbers around every boundary of a byte, a word and 64 bits, whole and cut off | exact below 2^35, canonical below 2^32, cut off means refused |
| `uvarint_all` (violation) | the same | 64 bits are not read |
| `backend` | lists of up to 3 outputs of 2 transactions, amounts -1 to 12 | the handler answers as promised; transactions match inputs; nothing to spare; the amount is paid as exactly as six decimals allow |
| `spend` | 2 addresses, 3 PSBTs, 3 windows, 4 wallets: an ordinary one, one with a second account the page is not told of, one whose addresses cannot be read, one that cannot sign | only what was shown is paid, at the fee shown (`PaidAsShown`) and from the address shown (`SpendsFromAddressShown`), whichever wallet is stored by then; success is of what was accepted, and never beside an error |
| `approval` | every class of transaction, every operation, up to 2 outputs to 3 keys; whole, cut off at every byte, with bytes to spare, already signed, of 4 types without a class; 2 accounts, 3 levels, 2 names | `BrokenIsNeverSigned`; `SignedReadsBack`; `DescriptionIsTrue`: what the page says is what a node reads once the page has signed; `UnaskedSpendsNothing` |
| `storage` | 2 windows, 2 accounts, a level and a number that is none, 2 credentials, 5 keys; in Safari 1 window and 1 account with the iframe | `RevokedNeverOpens`; `LogoutHolds`; `QuietWritesHold`; `GrantedKeysMeet`; `StrayLevelsSignNothing` |
| `spend_absurd_fee` (violation) | 2 PSBTs, 2 windows | a late answer clears the error of an absurd fee |

Every number in the table is a bound named in its module (`MaxKeys`,
`MaxPosted`, `MaxRequests`, `MaxVisits`, `MaxCalls`, `MaxLaunches`, `MaxCoins`)
or one of two state constraints: `AtMostTwoInMotion` of `MCIdentityVault` (open
windows, login messages and requests, taken together) and `Bounded` of
`MCIdentityStorage`. The first is also there when liveness is checked: handling
a request, which liveness asks for, never adds to what is in motion, so the
constraint cuts off no step that should be taken. Why they suffice: a credential goes stale by one logout, so two keys
show what a logout does to the credentials of the key before; a race needs two
tabs; two seeds tell an account's own credential from another's. A message out
of turn needs a second instance, and a promise that is replaced a second popup. Two outputs of one
transaction and a third make every order of inputs; amounts from below zero to
beyond the sums make every comparison fall each way, and `Unit = 4` makes
printed amounts fall below, above and on half. Two PSBT requests make an answer
late; the third asks while one is signed. Every kind of field is in some class of
transaction, and cutting at every byte cuts off every field; two outputs to
three keys pay the owner, another, both, and the same twice. Of two windows one
is interrupted by the other at every step; with the iframe one window suffices,
since each concerns the other by the key alone. Symmetry is used only in runs without
liveness and over sets of values that the definitions treat alike.

Runs whose specification really may stop (a bound reached, the user gone) say
`CHECK_DEADLOCK FALSE`; the others run on.

### Fairness

`vault_two_hosts`: the iframe's handler runs (`WF` of the iframe's step) and a
posted login message reaches the tab, is delivered or dropped. `channel`: the
app starts, an instance that loads starts and takes its acknowledgement, and
posted messages are handled. That is what a browser's event loop does with queued
messages, and nothing more: the user need do nothing at all, nor does any window
have to close.

## Where the code departs from what it says

Three runs fail, and `PROJECT.json` quotes the lines they contradict.

1. `vault_stored_level`: a credential of a higher level stays good after a log-in
   at a lower one (`src/app/identity.service.ts:203`); only a logout ends it.
2. `uvarint_all`: `bufToUvarint64` misreads numbers of 2^35 and more
   (`src/lib/bindata/util.ts:14`).
3. `spend_absurd_fee`: a late broadcast answer clears the error of a newer PSBT
   (`spend-lbc.component.ts:111`), and the absurd payment can be submitted.

The models show others too, on which the properties are careful to claim nothing:

- `handleLogin` never looks at who sent a message: with two windows open, one's
  login closes the other and resolves its promise, and so does the second login
  message of a double click if another window was launched meanwhile (`HandleLogin`
  of IdentityChannel; `example/frontend/src/app/identity.service.ts:170`).
  `LoginsAnswerTheirLaunch` says that it takes one of the two.
- Approving for an account that was logged out meanwhile throws, posts nothing and
  leaves the window open (`ApproveThrows`; `src/app/approve/approve.component.ts:92`).
- A request whose transaction type is not in the table is never answered
  (`HandleUnparsable`, `Malformed`; `src/lib/deso/transaction.ts:324`).
- Entropy of 36 to 64 bytes passes the check and changes nothing
  (`CheckEntropyHex`; `EntropyIsOfPhrase` excludes it).
- A new phrase keeps the error of the phrase before (`GetNewEntropy`).
- A passphrase that normalization changes is refused when it is retyped as it was
  typed (`NormalizeExtraText`, `Verified`).
- `%f` rounds the amount to pay to six decimals, up even beyond the inputs
  (`Printed`; `PaysWhatWasAsked` allows half of the last place; `main.go:56`).
- A PSBT that is not base64 is answered with status 200 (`MakePsbt`; `main.go:72`).
- A wallet is stored, and signs, although its addresses cannot be read (`SaveWallet`;
  `src/app/test-lbry-log-in/test-lbry-log-in.component.ts:29`).
- A decode answer that comes late is shown beside another transaction
  (`DeliverDecoded`).

## Proofs

All theorems hold for every value of the constants that satisfies the modules'
named assumptions. Each is proved from an inductive invariant: it holds
initially, every action keeps it, and it implies the property. Every safety
invariant and action property of the passing runs is stated by a theorem; the
run shows it on a small instance, the theorem for all.

| Module | Inductive invariant | Theorems of the properties |
|---|---|---|
| IdentityVaultProofs | `VaultInv`; for the refinement `RefInv` | `LogoutRevokes`, `HostsAreSeparate`, `SigningNeedsConsent`, `LogoutReplacesKeys`, `VaultKeepsThePromise` |
| ConsentProofs | `ConsentInv` | `GrantsFollowConsent` |
| IdentityChannelProofs | `ChannelInv` | `TypeCorrect`, `HostnameFirstAlways`, `NobodyDeafEver`, `AnswersAlwaysAwaited`, `LaunchesAreAnsweredByTheirs` |
| SignUpProofs | `SignUpInv`, `PhraseInv`, `FieldsAgree` | `StoredAccountsLoadAgain`, `PhrasesUsedOnce`, `EntropyShownIsOfPhrase` |
| Uvarint64Proofs | `ReaderInv`, `TypeInv`, `CutOffInv`, `WriterInv` | `SmallNumbersAreExact`, `TypeCorrect`, `CutOffAlwaysRefused`, `WrittenCanonically` |
| PaymentProofs | `BackendInv`; `PaymentInv` | `BackendAnswersAsPromised`, `AnswersAreReasonable`, `AmountsArePaid`, `TransactionsComeInOrder`, `BackendMeetsThePage`; `PaymentTypes`, `PaysAsShown`, `PaysFromAddressShown`, `SuccessIsTrue`, `ErrorsHideSuccess` |
| IdentityStorageProofs | `StorageInv` | `RevokedStaysClosed`, `LogoutStays`, `QuietWritesStay`, `GrantedMeet`, `StrayLevelsStaySilent` |
| TransactionApprovalProofs | `PageInv`, `DescriptionInv`, `SigningInv` | `BrokenStaysUnsigned`, `DescriptionsAreTrue`, `SignaturesAreReadBack`, `NothingSpentUnasked` |

**IdentityVaultProofs.** `TypeCorrect` first. `LiveCredentialsAreLoggedIn` is not
inductive: it does not say that a key in use was handed out before, that two
hosts never share one, nor what a credential contains. `VaultInv` says so:
stored keys are below `nextKey` and differ between hosts (`KeysAreFresh`), and
every credential held anywhere is `Sound` (sealed with the seed of its account
under a key handed out, with the HMAC that seed gives its level, and if it opens
anywhere then at its host, where its account is logged in). The lemmas follow
the code's shape: `HeldNow` and `HeldThen` say where credentials are,
`SealedIsSound` that those `FinishFlow` issues are sound, `SoundStays` that the
others remain so, `GrantLogsNobodyOut` that granting ends no log-in; a logout
needs `StoreKeyFresh`, since it is the new key that ends what it revokes. From
`VaultInv` follow `LogoutRevokes`, `HostsAreSeparate`, and the action properties
`SigningNeedsConsent`, by `HmacProvesSeed` and `ProvedMeansWorks` (an HMAC that
verifies means the sealed seed was opened), and `LogoutReplacesKeys`.

The refinement, `VaultKeepsThePromise`, goes handler by handler. A grant of
Consent is a credential that still works, so the proof is about which
credentials a step creates, moves and ends: a page's end issues credentials of
accounts logged in then (a log-in, an approval or a logout there, according to
what became of the level), the client moves what it has or drops it, the iframe
answers what was asked. `RefInv` adds to `VaultInv` that every level in storage or
in a credential is one a client may ask for, without which a credential would
not be a grant at all; and `NoRequestAssumption` that the mark for the absence of
a request is not one.

**ConsentProofs.** `GrantsFollowConsent`, by an invariant that adds the types. It
needs that no site asks for the level `None` (`LevelsGrant`).

**IdentityChannelProofs.** `HostnameComesFirst` speaks of what has arrived; to be
kept, it needs to know of what is under way. `ChannelInv` follows the handshake:
before the app has heard of the iframe nothing was said to it and all requests
wait (`BeforeInitialize`); from then on nothing waits, and the iframe has its
acknowledgement or one is in its queue (`AfterInitialize`), ahead of every
request that needs it (`AckFirst`); messages go to and come from listening
instances only (`Listening`); and a request that awaits its answer is in one
place, in a queue, at the browser's prompt, or in its answer (`RequestsOnce`),
from which it follows that no promise is answered twice.
Its part `Windows`, for `LaunchesAreAnsweredByTheirs`, says that whoever might log in
is the window of the open promise, or was about when that was made. The lemmas on queues say
what `Append` and `Tail` do to all this, so that each handler is a few steps.

**SignUpProofs.** The page adds a phrase it never validates. `PhraseIsValid`
makes it inductive: the phrase is valid, or the user is in step one and sees
that it is not. It survives leaving the page, which forgets the errors, because
leaving also draws a new phrase. `PhraseInv` says that the phrase of the visit
was not drawn before and has been used in this visit alone; `FieldsAgree` that
phrase and entropy belong together, but for an error or too long an entropy on
the open page: leaving it puts both right.

**Uvarint64Proofs.** `SmallNumbersAreExact`: by an invariant on the word read so
far (`ReaderInv`): it holds exactly the number's bits below the shift, as long
as the shift is within the word. `CutOffInv`: what is left of a number that was
cut off consists of bytes that say another follows. `WriterInv`: what was
written are the canonical bytes of the groups written, and the word is the
number less those groups.

**PaymentProofs.** Of one request of the backend, `RequestInv` says: without the
last output the total was too small, the transactions fetched are those of the
first inputs, and a PSBT is made only if the total is enough, paying what
`Printed` allows (`PrintsNearby`, `PrintsWhatFits`). `Selection` says that the loop's total is what PsbtService
calls the total of so many outputs. The service is defined by recursion and by a
least number, so this needs induction, which is done in the form of sets: by
`WFMin` of the library a set of naturals has a least element (`LeastNatural`),
hence a set with 0 and each successor has them all (`CountedUp`); `TotalsOf`,
`TotalsGrow`, `TotalsOfPrefix` and `NeededIs` are stated so. Then
`BackendAnswersAsPromised`: loop, error paths and fee check answer what the
service promises, and `BackendMeetsThePage`: that is an answer SpendLBC lets the
backend give.

Of the page, `PaidAsShown` is about what the node has taken, which a step can
only keep if the windows, messages and calls before it are right. `PaymentInv`
says that the fee in an answer and on the page is that of the PSBT it comes
with (`FeesAgree`), and that the open window, its message and every broadcast
carry what the user agreed to, from the address of the PSBT's inputs, as does what
the node accepted (`SignedIsAgreed`). That a wallet can be saved between asking
and signing is no matter: the key is looked for by the address in the window,
and the inputs must be that key's. The node's list of outputs
stays a list by `WithoutIsList`.

**IdentityStorageProofs.** `StorageInv` says what has been read and not yet used.
`KeysInv`: keys are never given out twice, a key in a jar was not replaced, and
the two jars never hold the same one. `WindowInv`: a window that will write a map
back has read in it all that is settled of other accounts; a window that works
alone has stored what it was asked to, and after a logout's new key nothing it
made opens for that account. `RequestInv`: a request sent while the app knew of
the access is at the site's jar, and the key it opened with is at most the one
there. `LogoutHolds` and `QuietWritesHold` are conjuncts of their own. The
lemmas: `ClickKeeps` for whatever a user starts, `SilentWindow` and
`SilentIframe` for steps that write no storage, `OtherWindows` for what one
window's step leaves of another, `GeneratedKeyIsNew` for the key that is found
missing, `RequestKept` for a request while windows work.

**TransactionApprovalProofs.** The codec is a parameter here, so the theorems say
what iframe and page add to it. If signing leaves owner, outputs and metadata as
they were (`SigningKeepsContent`), the description is true whenever and whatever
the node answers (`DescriptionsAreTrue`), and nothing is spent unasked
(`NothingSpentUnasked`). If what is broken cannot be read (`BrokenThrows`), it
is not signed (`BrokenStaysUnsigned`). If a whole transaction is written with its
signature last and reads back whichever it is given (`CodecReadsBack`), what is
signed reads back, with the signer's signature (`SignaturesAreReadBack`): the
slice that drops the empty signature drops its one byte of length and nothing
else, and what was signed is what was sent, by the iframe or by the owner the
page shows (`SigningInv`). Names are told apart from
texts by `Nameless`, and turned back by `NamesResolve`; `TransfersNameNobody`
shows that the words of a transfer hold none, however many outputs it has.

Model-checked only:

- Liveness (`RequestsAreAnswered`, `RequestsAreResolved`, `WindowsGetReady`):
  fairness and ENABLED are out of the prover's reach.
- That the wallet's codec meets the three conditions of
  TransactionApprovalProofs. BinaryRecord reads objects within objects by
  RECURSIVE operators, which no module with a theorem may use; the run `approval`
  checks, transaction by transaction, the properties that rest on them.

## What the models assume

- In all modules but IdentityStorage handlers run to completion one at a time, as
  those of one origin in one process do. IdentityStorage has windows in different
  processes. There, of two that overlap, the later write undoes the earlier one:
  a level that a logout took away can come back, and with the next log-in a
  credential of the account. `LogoutHolds` and `QuietWritesHold` are therefore
  about what no other window overlapped.
- Cryptography is ideal. In IdentityVault clients ask for a level of the
  enumeration; in IdentityStorage for any number; level 0 (`None`), at which the
  site would store a log-in as a logout without a new key, is in neither.
- In TransactionApproval numbers are below 2^28, which Uvarint64 shows to be read
  exactly; no two accounts have the same name, no name contains a public key, and
  base58 names no two keys alike. The credential sent along is genuine.
- Outside Safari the iframe shares the storage of the site's windows.
- A tab of IdentityVault has one window at a time (IdentityChannel has several)
  and keeps the credentials the login message brings, as the client library
  stores them; parts of the demo app's own use of them are switched off.
- The user never types in a phrase the service once generated for another visit.
- Uvarint64 leaves out the rounding of numbers above 2^53.
- BackendPsbt and SpendLBC add amounts exactly. In SpendLBC amounts have at most
  six decimals, the user opens one window at a time, a signed transaction is
  named by its PSBT, and the node may refuse any transaction.

## Not modelled, and the plan

Of the components marked `partly` in `PROJECT.json` the note there says what is
left out. Later work, in this order:

1. Two tabs on mainnet and testnet of one host, with double clicks: a logout
   reseals the accounts of its own network (`LoggedIn`) and ends the credentials
   of the other.
2. The conditions on the codec as theorems, first for the transcoders without
   nested objects, if BinaryRecord's recursion can be written as a function on the
   number of fields.

Never to be modelled: the ECIES library, which nothing calls and which is
arithmetic without control; display pages; vendored and generated code; the
callback mode of mobile apps, which nothing in the repository uses; floating
point rounding of the backend's sums; the unused `handleInfo` of the client and
`generateBlockRegtest` of the backend.
