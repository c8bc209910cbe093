# Verification of witnesskit in TLA+

witnesskit is a log kit for agents. A `Chain` records what an agent did as a
list of entries, each hashed, linked to the entry before it and signed with
Ed25519; `verify_chain` says whether such a list is intact; `reconcile` checks
what the agent's own summary claims against what the list records. There are two
ports, `python/witnesskit` and `typescript/src`, meant to agree.

This directory holds TLA+ models of that code, the TLC runs that check them on
small instances, and theorems about them that TLAPS checks for every value of the
constants. Where a run and a doc or comment of the repository disagree, the run
is kept as a counterexample (section 6).

    tlc -workers 2 -config MCRace.cfg MCRace      # one run
    tlapm EvidenceProofs.tla                      # one module of proofs

## 1. Inventory

| component | source | state | operations |
|---|---|---|---|
| Chain | `python/witnesskit/chain.py`, `typescript/src/chain.ts` | `entries`, `actor`, the signing seed | `open`, `append`, `head_hash`, `to_json`; `entry_hash`, `build_entry`, `_validate_payload`, `_now_iso` |
| verification | `verify.py`, `verify.ts` | locals of one loop: `prev_hash`, `prev_ts` | `verify_chain` with trusted keys, an expected head, order of times |
| reconcile | `reconcile.py`, `reconcile.ts` | locals of five loops: steps, claims, the set of steps spoken about, findings, matches, the binding | `parse_entry_sandbox/_harness/_auto`, `_normalize_claims`, `_parse_steps`, `_summary_bound`, `reconcile` |
| signing | `signing.py`, `signing.ts` | none (an optional backend chosen at import) | `sign`, `verify`, `public_from_seed`, `generate_keypair` |
| canonical JSON | `canonical.py`, `canonical.ts` | none (an optional backend) | `canonicalize` |
| Ed25519 | `ed25519.py` | none | `publickey`, `sign`, `verify` and the arithmetic under them, used when no library is there |
| the rest | `__init__.py`, `index.ts`, `demo.py`, `fixtures/`, workflows | none | exports, a script, test data, CI |

How they interact. `append` calls `build_entry`, which validates the payload,
canonicalizes and hashes the content together with `head_hash` of the list, signs
the hash and returns the entry, which `append` then pushes. `to_json` returns the
very list the Chain goes on appending to; a caller writes it to a file and
`Chain.open` reads it back, perhaps in another process and perhaps more than
once; `open` copies the list, not the entries in it. `verify_chain` and `reconcile` take a Chain or a list; given a Chain they
walk its live list. There are no callbacks except a custom parser given to
`reconcile`, no messages, and no locks anywhere.

What is hard about it, and what makes each part correct:

* **Chain.** `append` is four steps with nothing held between them: read the
  length, read the head, build and sign (which may raise), push. Threads may race
  on one Chain, a process may die between any two steps, an export may be opened
  late or twice, the clock has whole seconds and may go back, and callers may date
  entries themselves. *Correct*: with one writer per Chain the list is always an
  append-only linked trail that verifies; a head hash stands for one history;
  failed and lost appends leave nothing behind. With several writers, the damage
  has a known shape, is seen, is blamed on the right entry, and stays.
* **Verification.** The first failing check of the first failing entry ends the
  loop, so the order of checks and the moment the previous entry is remembered
  decide what is blamed. Edits may repair each other. A missing end can be seen
  only through an anchored head. *Correct*: under pinned keys only what a Chain
  held is accepted, under an anchored head only the whole of it, and the index
  reported is that of the first entry that is not as it was signed. On a list
  that grows meanwhile the verdict is that of some moment of the call.
* **Reconcile.** Steps without an index count themselves; a later step hides an
  earlier one of the same index; two passes over a live list see two moments;
  malformed input of any kind must give an error with no findings. *Correct*:
  every claim is a match or the subject of one finding, a clean result means that
  the record agrees, hidden refusals are listed once each, and the summary is
  bound by the last closing entry.
* **Canonical forms.** One payload is hashed in one installation and checked in
  another, which read and write numbers differently and may or may not have the
  library. *Correct*: no installation takes an untouched entry for a tampered one,
  and what was logged can be checked wherever it goes. It may be refused, by a
  fallback that fails closed.
* **Ed25519.** *Correct*: what `sign` makes `verify` accepts, in one form and for one
  message, and on any other bytes the verdict is the group equation, edge cases of
  the encoding included.
* **The ports.** The same rules in languages that differ in what an absent key, a
  boolean, a base64 text, white space, a number, a truth value and a table lookup are.
  *Correct*: the same verdicts and the same findings in the same order on everything
  they read alike; and where they read differently, no pack accepted that no Chain held.

The hazards are listed one by one, with their lines and the properties that cover
them, in `PROJECT.json`.

## 2. Modules

    Entries ──── Trails ──── Evidence ──── VerifyPorts
       │            ╲ (implemented by)
       ├──────────── ChainLog
       └──────────── LiveVerify
    Reconcile ───── ReconcilePorts
    Canonical
    Ed25519

* **Entries** has the operators the machines share: `entry_hash`, `build_entry`,
  `sign`, `verify`, and `verify_chain` as a function of a list and of its
  options. Digests and signatures are *free terms*: a digest is the record it was
  taken of, a signature the pair of the digest and the key. Equal digests thus
  mean equal inputs, which is what SHA-256 over canonical JSON is relied on for;
  two calls that hash the same content agree. An entry's `action` and `payload`
  stand as one value `body`, since no check treats them apart; `Loggable` are the
  bodies `_validate_payload` lets through, `Canonical` those `canonicalize` has an
  encoding for. Every key of an entry that no code reads stands as `extra`.
  Timestamps are numbers in the order of the texts: the code compares texts, whose
  fixed ISO form sorts like the times. JSON's booleans are values of their own:
  Python takes them for 1 and 0 (`index`), and in the place of a timestamp they stand
  for any number, which cannot be compared with a text. A signature's value is a
  base64 text, that is bytes and a way of writing them: as `b64encode` does, in the
  URL-safe alphabet or without its `=` (either leaves bad padding, unless four
  characters are passed over), with a character lost, with white space or an early `=`, empty, or no text at all.
  `Undecodable` says which of them `b64decode` raises at and `unb64` what it makes of
  the others; public keys are texts too, those in `Key` standing for their standard
  form. `Defect` gives the checks of one entry in
  the code's order, used by the function here and by the loop of LiveVerify.
* **Trails** is the abstract specification: a trail grows by one linked and
  signed entry, or is opened again on any list some Chain held. `held` keeps every
  such list, which is what forks and roll-backs are stated over.
* **ChainLog** is `chain.py` in detail: one action for each of the four steps of
  `append` (`ReadLength`, `ReadHead`, `Build`, `Push`) of each thread, `Export`
  (`json.dump(chain.to_json())`), `Open` (the process that ran the Chain ends,
  its appends in flight are lost, `Chain.open` reads the last export), and a clock
  that may be set back. `call[t]` holds the arguments evaluated so far, as the
  interpreter's frame does. `Build` may raise, and then `append` with it.
* **Evidence** takes a copy of any list a Chain held and edits it: fields,
  hashes, signatures, deletions, insertions, swaps, further keys, a signature or a
  key written in another way. The editor has keys of its own, not the writers'.
* **LiveVerify** has the Chain objects as Python has them: a heap of entry objects,
  lists of references to them, and two Chains, the second opened from either one's
  export, with the actor `open` infers, with a key or without. A write to a payload
  is seen by every Chain that lists the entry. On one of the Chains `verify_chain`
  runs, one iteration at a time, while both may grow: the loop follows the list, and
  its reports ask for `len(entries)` again.
* **VerifyPorts** adds the deletion of keys to Evidence and puts `verifyChain` of
  `verify.ts`, written from its own source, beside the Python verdict. In Python a
  key that is not there reads as `None`; in TypeScript it is `undefined`, which
  canonical JSON drops. `Buffer` and `Throws` are Node's decoding of base64, which takes
  the URL-safe alphabet, missing padding and lists of bytes and ends at an `=`;
  `true` is no number there, a list can be looked for among the trusted keys, a number
  and a text can be compared; and `JSForm` says which body a body is encoded as, since
  an integer past 2^53 is read as the nearest float. `ReadAlike` is, check by check,
  what both ports read in the same way.
* **Reconcile** is `reconcile.py` one loop iteration at a time, in its order: the
  argument checks, the steps, the binding, the claims, the refusals. Entries may
  be logged until the result is there. A chain that was loaded rather than logged
  may hold things that are no entries, or be no list; so may the claims. Labels and
  actions may hold characters that only one of the two languages takes for white
  space. `DigestOf` has the summaries that `_summary_digest` can hash.
* **ReconcilePorts** is `reconcile.ts` as a function of its arguments (its loops
  run on one thread and nothing can come between them), set beside the result of
  the Python machine on the same arguments. `Inherited` are the names every
  JavaScript object inherits, which `label in table` and `table[label]` find;
  `Double` is the number an integer is read as, with `Limit` for 2^53; `JSDigestOf`
  has the summaries that `summaryDigest` can hash, with digests of its own.
* **Canonical** is about payloads, which Entries takes as they come: lists around a
  scalar or around an object with the scalar under some keys. One installation of
  three (Python with rfc8785, Python with the fallback of `canonical.py`, TypeScript)
  validates and logs a payload, then the pack goes from one to another as JSON text.
  `literal` and `loads` are what writing and reading do to a number: Python writes
  ints as digits and floats with a point or an exponent, JavaScript writes any whole
  number below 10^21 as digits, and Python reads digits as an int. The key orders are
  the real ones, over code points and over UTF-16 units. What rfc8785, canonicalize
  and the JSON libraries do is external; it is taken from RFC 8785, from ECMAScript
  and from what the comments of `canonical.py` rely on.
* **Ed25519** is `ed25519.py` with its parameters as constants: the field, the
  curve, double and add in extended coordinates, the encodings, the secret scalar,
  `sign` and `verify`. The hash is a choice that is made when it is asked and
  remembered with the signature. The reference it is held against is the curve as a
  set of pairs with affine addition, division found by search.
* **EntriesProofs, EvidenceProofs** (Trails, Evidence and VerifyPorts), **ChainLogProofs**
  (ChainLog with several writers and with one), **LiveVerifyProofs, ReconcileProofs,
  ReconcilePortsProofs, CanonicalProofs, Ed25519Proofs** hold the lemmas and theorems.

Definitions named after code have the code's name where TLA+ allows it, and
`PROJECT.json` gives the lines each stands for. A few definitions are faulty
variants of the one that follows them (`UnlinkedHash`, `LinkFirstDefect`,
`CountedFromOne`, ...): nothing uses them but the mutation tests of
`PROJECT.json`, which put each in the place of the right one and expect the
named property to fail.

## 3. Runs

Every run finishes over its whole state space. Two of them assume fairness, for one
property each:

* `log`, `AppendsEnd`: an append that was called ends. Each thread's steps inside
  `append` are weakly fair, since `append` waits for nothing: no lock, no retry, no
  callback. Calling it, exporting, reopening and the clock are not fair: nothing
  makes them happen.
* `live`, `CallReturns`: a `verify_chain` that was called returns. Its steps are
  weakly fair for the same reason; appends are not. `MaxEntries` bounds what is
  logged, so the property is that the call ends if finitely many entries are logged
  during it. Against a writer that is for ever faster than the loop there is no such
  promise in the code, and none is claimed.

| run | question | bounds and why they are enough |
|---|---|---|
| `log` | One writer per Chain: does what a Chain holds always verify (`ChainsVerify`), does an anchored head accept one history (`AnchorIsExact`), are times judged exactly by comparing neighbours (`TimeVerdict`, `HonestClockVerifies`), do the four steps implement the abstract trail (`ImplementsTrails`), and does every append end (`AppendsEnd`)? | two Chains with different keys that open each other's exports; 3 entries, counting the appends in flight, so that there is an entry between two that are out of order; 5 different lists, the empty one among them, so that there are two forks of 2 beside their common start; a body the code refuses. No caller dates entries here: the clock, which may be set back, covers the same orders |
| `race` | Two threads on one Chain: `RaceShape`, `RaceIsLocated`, `DamageStays` | 4 entries, counting the appends in flight: an overtaken entry and two that come after it; the callers' own timestamp 0 beside a clock of 0 and 1. The threads are interchangeable, hence the symmetry |
| `evidence` | Over forks and roll-backs: is `HistoryOK` an invariant, as the proofs use it, and does a head hash stand for one history (`HeadCommits`)? After any two edits of a pack: `AcceptedWasHeld`, `AnchoredIsComplete`, `TamperIsLocated` | trails of 3 entries and 6 different lists with the empty one: two lists of 2 that end alike and differ before need 5, which is what a hash without the link is found by. A pack is copied while there are 4; two edits let one repair the other (renumber after a deletion, rehash after a change, exchange an entry and mend the link); one key of the writer and one of an outsider; a body without a canonical form; texts with white space in them, in the URL-safe alphabet, and lists in their place. The two bodies with a canonical form are interchangeable, hence the symmetry |
| `live` | Two Chains that share entries, verified while they log: `VerdictOfAMoment`, `DamageIsSeen`, `NoFalseAlarm`, `CallReturns`; `ListsStaySeparate`, `ActorIsKept` | 3 entries: one checked, one logged behind the iterator and one after it, or one in each list beside a common one; a first Chain without an actor, so that names appear on the way; a second with another key or none; callers who pin a key, none, or say nothing, every head the list has or had as the anchor, a clock that goes back, one write to a payload |
| `verify_ports` | Two verifiers: is their verdict the same up to the first entry that they read differently (`SameVerdict`), do they accept the same packs where they see the same bodies and bytes (`SameAcceptance`), and does what `verifyChain` accepts say what a Chain held, in whatever way it read it (`AcceptedBesideWasHeld`)? | packs of 2 entries, two edits, among them deleted keys, booleans for numbers, and one text of each kind that matters: decoded alike (white space), by Node only (URL-safe, a list), by neither to what was signed (a character lost). A body with an integer past 2^53, which is another body's float in JavaScript. Each check looks at one entry and the one before |
| `reconcile` | `EveryClaimIsSettled`, `CleanMeansAgreement`, `RefusalsAreListed`, `OrdinalsCountSteps`, `BindingIsTheLast`, while the agent logs on | 3 entries and 2 claims: two steps with one index and one more, two claims about one step, duplicates, malformed claims; two closing entries and a step. Every pair of claims is tried with the default parser and no summary, and five short arguments (no claims, one, a malformed one, None, no list) with every built-in parser, a custom one that may raise, return nothing or a step without an index, an unknown name, summaries that have a digest, have none or are not given, and a chain that has a list of entries or has none |
| `ports` | `SameResult`: both ports of reconcile return the same | 2 entries, 2 claims, every parser name, inherited names and malformed parts included; white space of either language in a label and in an action; 4 for 2^53 and an index of 5, which no double then is; summaries that both ports hash alike, that one refuses, that they hash differently, and that both refuse |
| `ed25519` | `SignaturesVerify`, `SignaturesBind`, `VerdictIsTheEquation` | the field of 29 elements with d = 27: 40 points, 8 times the order 5 of the base point, as the real curve has 8 times a prime. All 64 hashes of a seed, all pairs of 6-bit encodings (those with y at or above 29 and those of no point included), all scalars up to 6, two beyond the bound; hashes 0, 3, 5 (0 modulo the order), 64 and 4095 |
| `canonical` | `NoFalseTamper`, `StaysVerifiable` | numbers on both sides of each limit, a fraction, negative ones, one that is not finite; a letter, a character above the surrogates and two outside the Basic Multilingual Plane as keys, in every combination; depths up to one beyond the limit; three trips, enough for a number to change its type and come back |
| `duplicate_step`, `ports_signature`, `fallback_order` | the counterexamples of section 6 | those of the run beside them |

Bounds that appear in guards: `MaxLen` (entries in a list and
appends in flight), `MaxHeld` (different lists over a behaviour), `MaxCopied` (different
lists up to the moment a pack is copied), `MaxTime` (the
clock), `MaxEdits`, `MaxEntries`, `MaxHops`, `Tried` (the scalars of Ed25519), `Writing` (the ways
of writing a base64 text that are tried; the definitions have all of them), and in
LiveVerify one write to a payload. Deadlock is checked in `log` and `race`, where some step is always
possible; in the others the system really stops: the verdict or the result has
been returned, or the pack has had its edits.

What the bounded state spaces do not show, sections 4 and 5 show or name.

## 4. Proofs

Everything is proved for any sets of Chains, keys, bodies and threads, from the
assumptions in the modules and from the hypotheses that the theorems name, which
stand at the end of this section. The assumptions: `None` is no key, no installation,
no summary and no status; the booleans are two values, and neither None nor numbers; `Loggable` and `Canonical` are sets of bodies; entries,
claims and a custom parser's answers have the shapes that `Reconcile` gives them; the
bounds are numbers; and of the parameters of Ed25519, what is said there. TLC evaluates
each in the runs of its module.

**Trails and packs**

* `EvidenceProofs!HistoryInvariant`: `Spec => []HistoryOK`. `HistoryOK` is inductive
  as it stands because it closes the history under starts of lists: extending a
  list adds one list all of whose proper starts were there, and the new entry's
  link is the head of the longest of them (`GrownList`: appending a built
  entry keeps a list linked).
* `EvidenceProofs!HeadHashCommits`: two lists ever held with one head hash say the
  same, whatever their lengths. The hash covers the index, so equal hashes stand at
  equal positions; it covers the link, so the entries before have equal hashes
  too. Instead of an induction down the list, whose library theorem takes an
  operator parameter, the proof takes the *last* position at which the hashes
  differ and finds that the next one's link gives it the lie.
* `EvidenceProofs!EvidenceInvariant`: the strengthening `PackOK` of what the editor
  can have. Whatever the edits, each element of the pack is no object or an entry
  whose signature, if made with a writer's key, is of a hash of an issued entry.
  It holds for any number of edits, one case per kind of edit.
* `EvidenceProofs!AcceptedPacksWereHeld`: from `PackOK`, an accepted pack's last
  entry has an issued entry's hash; the link check leads from there to the first,
  as in `HeadHashCommits`.
* `EvidenceProofs!AnchoredPacksAreComplete`: the anchor fixes the last hash, the
  rest follows.
* `EvidenceProofs!TamperingIsLocated`, for one signing key. Two lemmas, each about one
  position: where a pack is untouched every check up to it passes
  (`UntouchedPasses`), and where every check passes the pack is a copy of a held list
  (`PassingIsUntouched`, which is where one key matters: an entry that two writers
  signed alike may carry the signature of either). So the touched positions are those
  at or after a broken one, and the verdict names the first of them.
* `EvidenceProofs!EvidenceTypes`: the bounds of the history and of the edits.

**Chains**

* `ChainLogProofs!TypeInvariant`: the types of ChainLog in every interleaving. The
  inductive invariant `IInv` adds the types of every list ever held, since `Open`
  restores any exported one, and that a call in flight is on a Chain with a key.
* `ChainLogProofs!RacesHaveOneShape`, for any number of threads on any Chains. The shape
  of the lists does not follow from itself; `RInv` adds what a call in flight has
  read: after the length, that the list is at least that long; after the head, that
  the link was the head of the list at some length from then to now (`Fits`). Both
  stay true of a list that only grows, and `Open`, which may shorten it, drops the
  calls on it.
* `ChainLogProofs!RacesAreLocated`: an entry at its own index links to the entry before
  it, because between its index and its position there is one length only; so the
  positions whose check fails are exactly those of overtaken entries, and the first
  of them is blamed for its number, which is checked before the link.
* `ChainLogProofs!DamageIsPermanent`: what a check says of an entry depends on the
  entries up to it, so the first failing position of a list is that of every longer
  one.
* `ChainLogProofs!AppendIsAtomic`: under `OneWriter` (no two threads use one Chain) the
  specification implements `Trails`. `OInv` says that what a call has read is still
  the length and the head of its list, since nobody else writes it; `Push` is then
  `Trails!Extend`, `Open` is `Reopen`, everything else leaves the trails alone.
* `ChainLogProofs!ChainsAlwaysVerify`, `ChainLogProofs!AnchorsAreExact`: `OInv` also says that
  no held list has an overtaken entry, which with `RInv` makes every held list
  linked and signed; the rest is the argument of `HeadHashCommits`.
* `ChainLogProofs!NeighboursDecide`: the loop compares neighbours, the property speaks of
  every two entries. If some entry is dated after a later one, take the *first* entry
  behind it that is dated before it: its neighbour is dated no earlier than the first
  of the two, and gives it away.
  The other direction needs that nothing but the order of times can fail
  (`OnlyTimesFail`), which is what `OInv` says.
* `ChainLogProofs!HonestClocksVerify`. The property of the lists is not inductive, as an
  entry is dated when it is built and pushed later. `HInv` adds to `OInv` that while
  no clock was set back every held list, those of abandoned forks among them, is in
  order and not dated in the future, and that an entry about to be pushed is dated
  after all of its list.

**Verification of a list that grows**

* `LiveVerifyProofs!LiveInvariant`, of which `LiveTypes`, `VerdictIsOfAMoment`,
  `DamageIsReported` and `LoggingIsNoDamage` are consequences. None of the properties
  of a finished call is inductive. `LiveInv` says what the loop has established when
  it stands at `i` (`Walked`: everything before passed, `prev` is what is remembered of
  the entry before) and what the other actors have done since the call (`Since`: the
  list at the call is a beginning of the list now, and each entry after it is linked
  and signed with its Chain's key). The moment whose verdict is given is the length
  that the loop saw when it ended, or the place where it gave up. That no writer breaks
  `Walked` rests on `LogAppends`: an append changes no entry of the list and none of
  its references.
* `LiveVerifyProofs!ListsAreSeparate`: an action property, from the part of the
  invariant that gives each Chain a list of its own.
* `LiveVerifyProofs!ActorsAreKept`: inductive with `ActorsOK` (a Chain whose last entry
  names an actor has one), which is what `open` infers and `append` keeps.

**The ports of verification**

* `EvidenceProofs!VerdictsAreTheSame`: for every caller, the two verdicts are equal
  to the index and the reason, or some entry at or before whatever index they blame
  holds a value that the languages read differently (`ReadAlike`). For an entry without
  one, what the loop of `verify.ts` finds wrong (`Fault`) is the `Defect` of the same
  entry as Python reads it (`FaultIsDefect`); so both loops pass the same entries up to
  the first that is not read alike, and whatever stops one before it stops the other
  there (`DefectsComeFirst`, `FaultsComeFirst`). It says nothing of packs where an
  early entry is not read alike, which is where the verdicts do differ.
* `EvidenceProofs!AcceptanceIsTheSame`: under pinned keys the ports accept the same
  packs as long as they read the bodies alike and see the signed bytes in the same
  signatures. Deleted keys, booleans and the other values of `ReadAlike` are not
  excluded. Where everything is read alike it is the verdict above. Otherwise each port,
  on its own grounds, does not accept: an accepted entry has the hash of an issued one,
  and an issued one has every key and every value as both read it
  (`PythonAcceptsAlike`, `TypeScriptAcceptsAlike`). Both rest on `PortsInv`, which is
  the invariant of Evidence with undefined as one more thing that is no signature.
* `EvidenceProofs!AcceptedBesideAreHeld` excludes nothing: whatever Node takes for
  base64, for a link that is not there or for a number, a pack that `verifyChain` accepts
  under pinned keys says, as it reads it, what some Chain held. Where the ports part, it
  is thus about the form of what is accepted and never about what it says. The
  argument is that of `AcceptedPacksWereHeld`, on what canonical JSON makes of the entries.

**Canonical forms**

* `CanonicalProofs!NobodySeesTampering` and `EntriesStayVerifiable`, for any numbers,
  keys, limits and number of trips. Neither property is inductive: each speaks of the
  next reader only. `CInv` says what a trip keeps: what was signed is the RFC 8785
  form of the payload as it is *now*, but for the order of the keys, and the numbers
  still satisfy what the logger refused to take otherwise. A trip may change an int
  to a float and back, but RFC 8785 looks at values (`SentScalar`, `FormOfValue`);
  and the fallback, which writes with `json.dumps`, only writes safe ints, where
  both write digits (`FallbackForm`).
* `CanonicalProofs!TypeInvariant`: the types of a payload on its way.

**Reconcile**

* `ReconcileProofs!CleanResultsAreTrue`, for any number of claims and entries and any
  parser. `DiffInv` has one clause per loop of `reconcile`: before position `i` of the
  claims there is no finding exactly if all of them agree, and the steps mentioned are
  theirs; the loop over the steps takes the conjunction on. Entries logged meanwhile
  do not matter, as both loops read what was parsed before.
* `ReconcileProofs!BindingIsCurrent`, of the loop that does read the live list.
  `BindInv`: the digest found is that of the last closing entry before `i`; past
  the end it is that of the whole list, and the result stays what it was then
  (`Pinned`), since an append changes no earlier entry (`LoggingKeepsThePast`).
* `ReconcileProofs!ClaimsAreSettled` and `RefusalsAreReported`, of how many findings
  there are and where each stands. `SettledInv` counts: after `n` claims the matches are
  the agreed claims up to `n`, and the finding of a refuted claim stands at the number
  of refuted ones up to it; the refusals follow at that offset. The lemmas on `Count`
  say how it grows by one position and that members count from one. `StepOfIndex`
  says that the table `by_index` holds the *last* step of an index.
* `ReconcileProofs!OrdinalsAreRight`. The loop counts with `len(steps)`; `OrdinalInv`
  says that this is the number of step entries passed, and that a step read earlier is
  still that of the entry it was read from, though the list has grown.
* `ReconcileProofs!ReconcileTypes`: `TypeInv` adds the types of steps and claims,
  from what the parsers and `_normalize_claims` let through.

**The ports of reconcile**

* `ReconcilePortsProofs!PortsReturnTheSame`. The Python machine is compared with a
  function that is made of folds. A fold over a list of any length is an induction over
  data, which the library's theorems do not give (they take an operator as a
  parameter); it is proved here by hand, from a *first* length for which it fails
  (`PushesExist`, `ReadsExist`: the function the fold chooses exists for each length,
  since it does for the empty list and for one position more). From there a fold is a
  function of how far it has gone, with one equation for each position
  (`PushEquations`, `ReadEquations`), and `PortInv` has one clause per loop: the steps
  parsed are those of the fold at `i - 1`, then the findings about claims are, then
  those about steps, behind the former. Each iteration takes both sides on alike, by a
  lemma on the rule it applies (`SameReading` of an entry, `SameClaims` and
  `SameStatus` of the tables, `SameDigest`, `SameJudgement` of a claim, where `by_index`
  is the step the port compares with, `SameReproach` of a step). The theorem is about
  the inputs that `SameResult` leaves, which `NamesAnInheritedOne`, `ReadsDifferently`
  and `HashesDifferently` name: for a summary, only those that one port refuses or the
  ports hash differently, and only where the chain has a digest to compare with.

**Ed25519**

For any prime `q` that is 5 modulo 8, any twisted Edwards curve over it whose `d` is no
square, and any hash. The number theory that a curve is chosen by is assumed of the
constants, and TLC evaluates it on the curve of the run: Fermat's theorem and that 2 is
no square modulo `q` (`FieldAssumption`); that the affine addition is associative, and
that the number of points annuls each of them (`GroupAssumption`); that the base point
has a prime order `L` above 2^(b-4) (`BaseAssumption`). They are known facts about edwards25519,
and about no line of `ed25519.py`. All that is about the code is proved:

* *The field.* Arithmetic modulo `q` is that of congruences (`Zero`, `Same`); `pow` with
  exponent `q - 2` inverts (`FieldInverse`); `_xrecover` finds a root of every square
  (`RootsAreFound`), so it finds the x of every point (`XIsRecovered`).
* *Encodings.* An encoding is decoded exactly if it means a point, and to that one
  (`Decoding`): y may be at or above `q`, and the sign of x is lost where x is 0.
* *Points.* `Stands(P, p)`: the extended coordinates `P` are those of the affine point
  `p`. No denominator of the addition vanishes, as `d` is no square
  (`DenominatorsAreNotZero`), the sum of two points is on the curve (`SumOnCurve`), and
  `_edwards_add` and the doubling keep `Stands` (`Addition`). So double-and-add computes
  the multiple (`ScalarMultiple`), and the comparison of `verify`, which does not
  divide, tells points apart (`SamePoint`).
* *Scalars.* Multiples of the base point agree exactly for scalars that are congruent
  modulo `L` (`SameMultiple`), and no clamped scalar is a multiple of `L`
  (`SecretScalar`, `KeyIsNotNeutral`): it is 8 times a number below
  `L`, which is odd and prime.

The states come last. `IInv`: the key is what its scalar gives (`KeyInv`); a signature
is made with a nonce that its hash returned (`SignedInv`), which the state no longer
holds and no property can do without; the verdict is that of `verify` on what was
checked (`CheckedInv`); and as long as there is a key, only its own signature is checked,
with the hash that was remembered if the message is the signed one (`OwnInv`). TLC
found `IInv` an invariant of the instance of the run before it was proved. From it:

* `Ed25519Proofs!SignaturesAlwaysVerify`, by the equation the signature was made to
  satisfy (`OwnSignature`).
* `Ed25519Proofs!SignaturesAlwaysBind`: two scalars or two hashes that verify under one
  key give one multiple, of the base point or of the key, whose order is `L` as well.
* `Ed25519Proofs!VerdictIsAlwaysTheEquation`, for any two encodings (`VerifyIsTheEquation`).
* `Ed25519Proofs!TypesAreRight`: what `sign` and `publickey` return is in the range
  that `verify` reads.

The hypotheses:

* `NoneIsApart` (no number, no set of keys, no entry, hash or signature is None),
  `NoneIsNoStep` (no step is None) and `AbsenceIsApart` (the same of undefined; and
  neither is a digest, the actor, a number or a body with a canonical form). TLA+ does not say
  so of an unspecified constant, and TLC cannot evaluate them, as they speak of all
  records; they hold of the model values that the runs use. `ValuesAreApart` says the
  same of `Raise` and of the function that JavaScript finds under an inherited name.
* `BuiltInParsers`: no call passes a parser of its own, which is a function of one
  language. It speaks of constants and holds in `ports`.
* `OneWriter`: no two threads use one Chain. It speaks of constants and holds in `log`.
  Without it the theorems of ChainLogProofs say what is left.
* `OneSigner`: the trails are signed with one key, as in `evidence`. With several,
  the signature of an entry may be exchanged for that of another writer who logged the
  same, and no check tells: the hash does not cover the key.

TLC checked the properties first, in the runs of section 3, `HistoryOK` among them.

What stays with TLC: the liveness properties `AppendsEnd` and `CallReturns`, as the
prover does not handle ENABLED and so no fairness; that the number-theoretic
assumptions hold of given parameters, which is evaluated for the curve of the run and
taken from the literature for edwards25519; and the counterexamples of section 6.

## 5. Plan, and what is not modelled

Done: all modules of section 2 and the proofs of section 4.

Every invariant and action property that the passing runs check is a theorem too, and
so is the refinement of the abstract trail by the steps of `append`; the two liveness
properties are model-checked only. Next, if the project is taken further: escapes
inside text (a lone surrogate has no UTF-8, and each library has its own way to say
so) in Canonical.

Not modelled, and why: the bytes of SHA-256 and SHA-512 (free terms and a table stand
for them), and Ed25519 at its real size, which is for test vectors and not for a
model checker; base64 byte by byte (module Entries has what each library makes of a
text that was written another way, by what the decoders do with it); timestamps and
actors that are neither text, null, boolean nor number; which optional backend an import finds
(each is modelled where it matters); the forms in which `verify_chain` takes its chain
and its keys, which it unwraps or refuses before it reads any state; the verbs, layers
and codes of findings and the wording of reasons beyond their kind; the Chain of
TypeScript as a machine of its own, which is the Python class on one thread and logs
an empty text for a missing actor; `demo.py`, the fixture generator, the package
interfaces and the workflows, which hold no logic of their own.

## 6. Where code and documents part

Each is a run that ends in a counterexample; `PROJECT.json` quotes the lines.

* `duplicate_step`: two steps with one index. The later hides the earlier, and a
  claim that agrees with the earlier is answered with `no_entry`: "the chain has no
  entry for" a step and counterparty it has.
* `ports_signature`: a signature's text with `-` for `+` is accepted by `verifyChain`
  under pinned keys, since `Buffer.from` takes the URL-safe alphabet, and refused by
  `verify_chain`, whose `b64decode` passes over the `-` and then finds bad padding:
  "same checks and security model as Python". `AcceptedBesideWasHeld` bounds the harm.
* `fallback_order`: `json.dumps(sort_keys=True)` orders keys by code point, RFC 8785
  by UTF-16 unit. An object with a key above the surrogates and one outside the Basic
  Multilingual Plane is accepted by the fallback, and hashed otherwise than anywhere
  else.

Smaller differences, met on the way, that are not runs:

* The hash covers seven named fields. A key added to an entry goes unnoticed, though
  `verify.py:6-7` says that any alteration is detected. Under the weaker reading, that
  everything the hash covers is as it was, `AcceptedWasHeld` holds.
* A trail without an actor, with its `actor` key deleted, is accepted by Python, which
  reads a missing key as the null that was hashed, and refused by TypeScript, which
  drops it. `SameAcceptance` is checked on trails with an actor.
* `_validate_payload` says that it rejects what would diverge, but looks at the range of
  ints only. A float like 1e20 is logged; re-exported by JavaScript it comes back as
  digits, Python reads an int, and the entry is "malformed". `StaysVerifiable` names
  the exception. A float that is not finite passes the check too and is refused by
  rfc8785 with an error of its own.
* The decoder of `ed25519.py` reads y modulo q and ignores the sign of an x that is
  0, which RFC 8032 refuses; `Meant` in Ed25519 says so.
* The verifiers read more values differently, all of them in `ReadAlike` and in the run
  `verify_ports`: an early `=` in a base64 text (the end for Node, passed over by
  Python), text that does not decode ("malformed entry" in Python, "invalid signature"
  in TypeScript), a list of bytes as a signature or key (taken by Node), `true` as the
  number 1 in Python, a list as the public key (unhashable in Python, no trusted key in
  TypeScript), a number beside a text as timestamps (an error in Python, in order in
  TypeScript), an integer past 2^53 (refused by Python's canonical form, a float to
  TypeScript).
* TypeScript looks labels, statuses, verdicts and parsers up in plain objects
  (`reconcile.ts:157`), so a label such as `constructor` finds a function and passes as
  well formed, where Python refuses it. `NamesAnInheritedOne` in ReconcilePorts.
* `_summary_digest` raises, and `reconcile` returns an error, for a summary object with
  an integer past 2^53 - 1, or in the fallback with any float, and for a text with a lone
  surrogate; `summaryDigest` hashes all of them and answers whether the chain commits to it
  (`reconcile.py:241-246`, `reconcile.ts:242-248`). The key order of `fallback_order` makes the
  digests differ besides. `HashesDifferently`.
* The ports of reconcile also read differently, as `ReadsDifferently` has it: a line break
  after an action (`$` in Python matches before it), an empty list or object as a
  reference (false in Python, true in TypeScript), `\x1c` to `\x1f` and `\x85` (white
  space in Python only) and `\ufeff` (in JavaScript only) in a label or an action, and an
  index past 2^53, which TypeScript rounds.
