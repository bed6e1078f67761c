----------------------------- MODULE HandicapApply -----------------------------
(***************************************************************************)
(* Reviewing and applying handicap recommendations in one season: the      *)
(* handicaps service, its write transaction, and the review page.  A       *)
(* client reviews recommendations at one time and applies them at another; *)
(* in between matches are processed, rules and rosters change, players are *)
(* edited or merged, and other clients apply.  Requests are delivered late *)
(* or twice, and answers get lost.                                         *)
(*                                                                         *)
(* Handicaps are integers (cents).  The racks a recommendation is computed *)
(* from are one value, of which Implied and Size are all that is used; a   *)
(* token and a request hash are the values they are hashes of.             *)
(***************************************************************************)
EXTENDS Integers, FiniteSets

CONSTANTS
    Players,
    Handicaps,    \* the handicaps of the model, in cents
    Samples,      \* the racks on record for one player
    NoSamples,    \* no eligible rack
    Implied,      \* the handicap implied by the racks of the window
    Size,         \* the number of racks in the window
    RuleSets,     \* season rules: method, threshold, cap
    Clients,
    RequestIds,   \* apply_request_id
    NoRequest,
    MaxRequests,  \* bound of the model: different requests sent
    MaxEdits      \* bound of the model: changes made around the review

Clamp(h, cap) == IF h > cap THEN cap ELSE IF h < -cap THEN -cap ELSE h

ASSUME HandicapsAssumption == Handicaps \subseteq Int
ASSUME SamplesAssumption ==
    /\ NoSamples \in Samples
    /\ Implied \in [Samples -> Int]
    /\ Size \in [Samples -> Nat]
ASSUME RulesAssumption ==
    /\ RuleSets \subseteq [method : {"manual_review", "game_diff_average"},
                           threshold : Nat \ {0}, cap : Nat \ {0}]
    /\ \A s \in Samples, r \in RuleSets : Clamp(Implied[s], r.cap) \in Handicaps
ASSUME NoRequestAssumption == NoRequest.id \notin RequestIds
ASSUME BoundsAssumption == MaxRequests \in Nat /\ MaxEdits \in Nat

VARIABLES
    existing,      \* rows of players
    assigned,      \* players.handicap
    adminHold,     \* players.admin_hold
    samples,       \* what EligibleRacks finds for each player
    roster,        \* players in season_rosters
    rules,         \* season_rules
    season,        \* by seasons.activated_at and closed_at
    history,       \* rows of handicap_history, keyed by request and player
    page,          \* the selectable recommendations each client looks at
    asked,         \* the request each client sent last
    told,          \* what the client has been told about it
    sent,          \* every request on its way, any number of times
    begun,         \* requests past the check that the season is open
    edits          \* changes made so far, up to MaxEdits
playerVars == <<existing, assigned, adminHold>>
inputVars == <<samples, roster, rules>>
clientVars == <<page, asked, told>>
vars == <<playerVars, inputVars, season, history, clientVars, sent, begun, edits>>

-----------------------------------------------------------------------------
(* buildRecs: the recommendation for one player, as the data are now. *)

Recommended(p) == Clamp(Implied[samples[p]], rules.cap)
Capped(p) == Recommended(p) # Implied[samples[p]]

\* Reasons no_data, admin_hold, below_threshold and no_change recommend
\* nothing that can be applied; a capped recommendation always can.
Actionable(p) ==
    /\ p \in roster
    /\ samples[p] # NoSamples
    /\ ~adminHold[p]
    /\ Size[samples[p]] >= rules.threshold
    /\ Capped(p) \/ Recommended(p) # assigned[p]

RecToken(p) ==
    [player |-> p, assigned |-> assigned[p], samples |-> samples[p],
     threshold |-> rules.threshold, cap |-> rules.cap, recommended |-> Recommended(p)]
Entry(p) ==
    [player |-> p, assigned |-> assigned[p], recommended |-> Recommended(p),
     token |-> RecToken(p)]

\* The other methods on offer recommend nothing; nor does a season of which no
\* match is processed, which is left out as it shows like one of them.
Recommending == rules.method = "game_diff_average"

\* The page offers the recommendations that change something.
IsSelectable(p) == Actionable(p) /\ Recommended(p) # assigned[p]
Selectable == {Entry(p) : p \in {q \in Players : Recommending /\ IsSelectable(q)}}

Tokens ==
    [player : Players, assigned : Handicaps, samples : Samples,
     threshold : Nat, cap : Nat, recommended : Handicaps]
Entries ==
    [player : Players, assigned : Handicaps, recommended : Handicaps, token : Tokens]
Requests == [client : Clients, id : RequestIds, entries : SUBSET Entries]

Rows(id) == {row \in history : row.request = id}

Init ==
    /\ existing = Players
    /\ assigned \in [Players -> {0} \cap Handicaps]
    /\ adminHold = [p \in Players |-> FALSE]
    /\ samples \in [Players -> Samples \ {NoSamples}]
    /\ roster = Players
    /\ rules \in {r \in RuleSets : r.method = "game_diff_average"}
    /\ season = "draft"
    /\ history = {}
    /\ page = [c \in Clients |-> {}]
    /\ asked = [c \in Clients |-> NoRequest]
    /\ told = [c \in Clients |-> "nothing"]
    /\ sent = {}
    /\ begun = {}
    /\ edits = 0

-----------------------------------------------------------------------------
(* The client.  A page is one read; a request is put together from it at any *)
(* later time, under a fresh id or, by a client of the API, one used before. *)

FetchRecommendations(c) ==
    /\ told[c] # "waiting"
    /\ page' = [page EXCEPT ![c] = Selectable]
    /\ asked' = [asked EXCEPT ![c] = NoRequest]
    /\ told' = [told EXCEPT ![c] = "nothing"]
    /\ UNCHANGED <<playerVars, inputVars, season, history, sent, begun, edits>>

ConfirmApply(c, selected, id) ==
    /\ told[c] # "waiting"
    /\ selected # {}
    /\ LET r == [client |-> c, id |-> id, entries |-> selected] IN
       /\ r \in sent \/ Cardinality(sent) < MaxRequests
       /\ asked' = [asked EXCEPT ![c] = r]
       /\ sent' = sent \cup {r}
    /\ told' = [told EXCEPT ![c] = "waiting"]
    /\ UNCHANGED <<playerVars, inputVars, season, history, page, begun, edits>>

\* The connection breaks before an answer arrives.
LoseConnection(c) ==
    /\ told[c] = "waiting"
    /\ told' = [told EXCEPT ![c] = "serverError"]
    /\ UNCHANGED <<playerVars, inputVars, season, history, page, asked, sent,
                   begun, edits>>

-----------------------------------------------------------------------------
(* Service.Apply: the season is looked at before the transaction begins. *)

BeginApply(r) ==
    /\ r \in sent
    /\ season # "closed"
    /\ begun' = begun \cup {r}
    /\ UNCHANGED <<playerVars, inputVars, season, history, clientVars, sent, edits>>

\* The answer reaches the client if it still waits for it.
Answer(r, outcome) ==
    /\ begun' = begun \ {r}
    /\ told' = IF asked[r.client] = r /\ told[r.client] = "waiting"
               THEN [told EXCEPT ![r.client] = outcome]
               ELSE told
    /\ UNCHANGED <<inputVars, season, page, asked, sent, edits>>

\* Seeded fault: the reviewed recommendation is compared, not what it replaces.
RecommendationHolds(e) ==
    Actionable(e.player) /\ Recommended(e.player) = e.recommended
\* The live recommendation is the reviewed one, from the same inputs.
EntryHolds(e) ==
    /\ Actionable(e.player)
    /\ RecToken(e.player) = e.token
    /\ assigned[e.player] = e.assigned
    /\ Recommended(e.player) = e.recommended

Row(r, e) ==
    [request |-> r.id, hash |-> r.entries, player |-> e.player,
     old |-> assigned[e.player], new |-> Recommended(e.player), token |-> e.token]

\* Seeded fault: entries that do not hold are passed over.
ValidEntries(r) == {e \in r.entries : EntryHolds(e)}
\* All or nothing: one entry that does not hold refuses the request.
AcceptedEntries(r) == IF \A e \in r.entries : EntryHolds(e) THEN r.entries ELSE {}

\* One transaction: the replay check, the recomputation, the writes.
ApplyFresh(r) ==
    /\ r \in begun
    /\ Rows(r.id) = {}
    /\ Recommending
    /\ AcceptedEntries(r) # {}
    /\ assigned' = [p \in Players |->
                      IF \E e \in AcceptedEntries(r) : e.player = p
                      THEN Recommended(p) ELSE assigned[p]]
    /\ history' = history \cup {Row(r, e) : e \in AcceptedEntries(r)}
    /\ Answer(r, "applied")
    /\ UNCHANGED <<existing, adminHold>>

\* Seeded fault: a request id is all that is compared.
UsedBefore(r) == TRUE
SameRequest(r) ==
    /\ \A row \in Rows(r.id) : row.hash = r.entries
    /\ {row.player : row \in Rows(r.id)} = {e.player : e \in r.entries}

Replay(r) ==
    /\ r \in begun
    /\ Rows(r.id) # {}
    /\ SameRequest(r)
    /\ Answer(r, "replayed")
    /\ UNCHANGED <<playerVars, history>>

\* Conflicts, rejections, a key used for something else; and another writer
\* holding the database, which may happen to any request.
Refuse(r) ==
    /\ r \in begun
    /\ Answer(r, "refused")
    /\ UNCHANGED <<playerVars, history>>

RefuseClosed(c) ==
    /\ told[c] = "waiting"
    /\ season = "closed"
    /\ told' = [told EXCEPT ![c] = "refused"]
    /\ UNCHANGED <<playerVars, inputVars, season, history, page, asked, sent,
                   begun, edits>>

-----------------------------------------------------------------------------
(* What goes on around the review. *)

Edit == edits < MaxEdits /\ edits' = edits + 1

\* The player form writes every field it shows, whatever it was loaded from.
UpdatePlayer(p, h, hold) ==
    /\ Edit
    /\ p \in existing
    /\ assigned' = [assigned EXCEPT ![p] = h]
    /\ adminHold' = [adminHold EXCEPT ![p] = hold]
    /\ UNCHANGED <<existing, inputVars, season, history, clientVars, sent, begun>>

\* Matches of this or another season are processed, reopened or edited.
ChangeRacks(p, s) ==
    /\ Edit
    /\ p \in existing
    /\ samples' = [samples EXCEPT ![p] = s]
    /\ UNCHANGED <<playerVars, roster, rules, season, history, clientVars, sent, begun>>

SaveRules(new) ==
    /\ Edit
    /\ rules' = new
    /\ UNCHANGED <<playerVars, samples, roster, season, history,
                   clientVars, sent, begun>>

ChangeRoster(p) ==
    /\ Edit
    /\ p \in existing
    /\ season = "draft"
    /\ roster' = IF p \in roster THEN roster \ {p} ELSE roster \cup {p}
    /\ UNCHANGED <<playerVars, samples, rules, season, history,
                   clientVars, sent, begun>>

\* A draft is activated for good; an activated season is closed and reopened.
MoveSeason ==
    /\ Edit
    /\ season' = IF season = "active" THEN "closed" ELSE "active"
    /\ UNCHANGED <<playerVars, inputVars, history, clientVars, sent, begun>>

Repointed(p, source, target) == IF p = source THEN target ELSE p

\* Every row of the source becomes the target's and the source is deleted; two
\* rows of a roster or of a request that became one player's make it fail.
MergePlayers(source, target, combined) ==
    /\ Edit
    /\ source # target /\ {source, target} \subseteq existing
    /\ ~({source, target} \subseteq roster)
    /\ \A a, b \in history :
          a.request = b.request => {a.player, b.player} # {source, target}
    /\ (combined = NoSamples) <=> (samples[source] = NoSamples /\ samples[target] = NoSamples)
    /\ existing' = existing \ {source}
    /\ roster' = {Repointed(p, source, target) : p \in roster}
    /\ history' = {[row EXCEPT !.player = Repointed(@, source, target)] : row \in history}
    /\ samples' = [samples EXCEPT ![source] = NoSamples, ![target] = combined]
    /\ UNCHANGED <<assigned, adminHold, rules, season, clientVars, sent, begun>>

-----------------------------------------------------------------------------
Reviewing(c) ==
    \/ FetchRecommendations(c)
    \/ \E selected \in SUBSET page[c], id \in RequestIds : ConfirmApply(c, selected, id)
    \/ LoseConnection(c)
    \/ RefuseClosed(c)

Serving(r) == BeginApply(r) \/ ApplyFresh(r) \/ Replay(r) \/ Refuse(r)

Surroundings ==
    \/ \E p \in Players, h \in Handicaps, hold \in BOOLEAN : UpdatePlayer(p, h, hold)
    \/ \E p \in Players, s \in Samples : ChangeRacks(p, s)
    \/ \E new \in RuleSets : SaveRules(new)
    \/ \E p \in Players : ChangeRoster(p)
    \/ MoveSeason
    \/ \E source, target \in Players, combined \in Samples :
          MergePlayers(source, target, combined)

Next ==
    \/ \E c \in Clients : Reviewing(c)
    \/ \E r \in sent : Serving(r)
    \/ Surroundings

Spec == Init /\ [][Next]_vars

-----------------------------------------------------------------------------
(* Properties. *)

HistoryRows ==
    [request : RequestIds, hash : SUBSET Entries, player : Players,
     old : Handicaps, new : Handicaps, token : Tokens]

\* The type invariant: recommendations stay within the handicaps of the
\* model, and nothing refers to a deleted player but what clients hold.
TypeOK ==
    /\ existing \subseteq Players
    /\ assigned \in [Players -> Handicaps]
    /\ adminHold \in [Players -> BOOLEAN]
    /\ samples \in [Players -> Samples]
    /\ roster \subseteq existing
    /\ rules \in RuleSets
    /\ season \in {"draft", "active", "closed"}
    /\ history \subseteq HistoryRows
    /\ \A row \in history : row.player \in existing
    /\ page \in [Clients -> SUBSET Entries]
    /\ asked \in [Clients -> Requests \cup {NoRequest}]
    /\ told \in [Clients -> {"nothing", "waiting", "applied", "replayed",
                             "refused", "serverError"}]
    /\ sent \subseteq Requests
    /\ begun \subseteq sent
    /\ edits \in Nat

TokensOf(rows) == {row.token : row \in rows}

\* Whatever arrives twice, late or under a used id, the rows of a request id
\* record one request and that one completely, and no entry of it twice, also
\* after its players were merged into others.
RecordedWhole ==
    \A row \in history :
        /\ \E r \in sent : r.id = row.request /\ r.entries = row.hash
        /\ TokensOf(Rows(row.request)) = TokensOf(row.hash)
        /\ \A other \in Rows(row.request) :
              other.hash = row.hash /\ (other.token = row.token => other = row)

\* A client that is told its changes are applied, now or before, finds each
\* of them in the history under its request id.
ToldIsRecorded ==
    \A c \in Clients : told[c] \in {"applied", "replayed"} =>
        TokensOf(Rows(asked[c].id)) = TokensOf(asked[c].entries)

\* What is applied is what was reviewed: when a request is recorded, each of
\* its players still has the handicap the client saw, is eligible, and gets
\* the recommendation the client saw, which is also the current one; nobody
\* else's handicap changes in that step.
AppliedAsReviewed ==
    [][\A row \in history' :
         Rows(row.request) = {} =>
            /\ \E e \in row.hash :
                  /\ e.player = row.player
                  /\ assigned[row.player] = e.assigned /\ row.old = e.assigned
                  /\ assigned'[row.player] = e.recommended /\ row.new = e.recommended
                  /\ Recommended(row.player) = e.recommended
                  /\ Actionable(row.player)
            /\ \A p \in Players :
                  assigned'[p] # assigned[p] => \E e \in row.hash : e.player = p]_vars

=============================================================================
