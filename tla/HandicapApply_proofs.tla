-------------------------- MODULE HandicapApply_proofs --------------------------
(***************************************************************************)
(* Theorems about HandicapApply, for every set of players, clients and     *)
(* request ids, and however often a request arrives.                       *)
(***************************************************************************)
EXTENDS HandicapApply, TLAPS

-----------------------------------------------------------------------------
(* Types. *)

\* What the review page shows of a player is well typed.
LEMMA RecommendationTypes ==
    ASSUME TypeOK, NEW p \in Players
    PROVE  /\ Recommended(p) \in Handicaps
           /\ RecToken(p) \in Tokens
           /\ Entry(p) \in Entries
<1>1. samples[p] \in Samples /\ rules \in RuleSets /\ assigned[p] \in Handicaps
    BY DEF TypeOK
<1>2. Recommended(p) \in Handicaps
    BY <1>1, RulesAssumption DEF Recommended
<1>3. rules.threshold \in Nat /\ rules.cap \in Nat
    BY <1>1, RulesAssumption
<1>4. RecToken(p) \in Tokens
    BY <1>1, <1>2, <1>3 DEF RecToken, Tokens
<1> QED BY <1>1, <1>2, <1>4 DEF Entry, Entries

\* The entries that can be ticked on the review page are entries.
LEMMA SelectableType ==
    ASSUME TypeOK
    PROVE  Selectable \subseteq Entries
BY RecommendationTypes DEF Selectable

\* The parts of a request that was sent.
LEMMA RequestFields ==
    ASSUME TypeOK, NEW r \in sent
    PROVE  /\ r \in Requests
           /\ r.client \in Clients /\ r.id \in RequestIds
           /\ r.entries \subseteq Entries
BY DEF TypeOK, Requests

\* The parts of an entry.
LEMMA EntryFields ==
    ASSUME NEW e \in Entries
    PROVE  /\ e.player \in Players /\ e.assigned \in Handicaps
           /\ e.recommended \in Handicaps /\ e.token \in Tokens
BY DEF Entries

\* The season starts well typed.
LEMMA TypeInit == Init => TypeOK
BY DEF Init, TypeOK, Requests

Told == {"nothing", "waiting", "applied", "replayed", "refused", "serverError"}

\* Being told the outcome keeps a client's page well typed.
LEMMA AnswerType ==
    ASSUME TypeOK, NEW r \in begun, NEW outcome \in Told, Answer(r, outcome)
    PROVE  /\ begun' \subseteq sent'
           /\ told' \in [Clients -> Told]
           /\ UNCHANGED <<inputVars, season, page, asked, sent, edits>>
BY DEF Answer, TypeOK, Told

\* Reviewing and confirming keep the types.
LEMMA ReviewingType ==
    ASSUME TypeOK, NEW c \in Clients, Reviewing(c)
    PROVE  TypeOK'
<1>1. CASE FetchRecommendations(c)
    <2>1. page' \in [Clients -> SUBSET Entries]
        BY <1>1, SelectableType DEF FetchRecommendations, TypeOK
    <2> QED BY <1>1, <2>1
            DEF FetchRecommendations, TypeOK, playerVars, inputVars
<1>2. CASE \E selected \in SUBSET page[c], id \in RequestIds : ConfirmApply(c, selected, id)
    <2>1. PICK selected \in SUBSET page[c], id \in RequestIds : ConfirmApply(c, selected, id)
        BY <1>2
    <2> DEFINE r == [client |-> c, id |-> id, entries |-> selected]
    <2>2. r \in Requests
        BY <2>1 DEF TypeOK, Requests
    <2>3. asked' = [asked EXCEPT ![c] = r] /\ sent' = sent \cup {r}
        BY <2>1 DEF ConfirmApply
    <2> HIDE DEF r
    <2> QED BY <2>1, <2>2, <2>3 DEF ConfirmApply, TypeOK, playerVars, inputVars
<1>3. CASE LoseConnection(c)
    BY <1>3 DEF LoseConnection, TypeOK, playerVars, inputVars
<1>4. CASE RefuseClosed(c)
    BY <1>4 DEF RefuseClosed, TypeOK, playerVars, inputVars
<1> QED BY <1>1, <1>2, <1>3, <1>4 DEF Reviewing

\* What a transaction that applies a request does, entry by entry.
LEMMA FreshForm ==
    ASSUME TypeOK, NEW r \in sent, ApplyFresh(r)
    PROVE  /\ AcceptedEntries(r) = r.entries
           /\ r.entries # {}
           /\ \A e \in r.entries :
                 /\ e \in Entries
                 /\ EntryHolds(e)
                 /\ e.player \in roster
           /\ history' = history \cup {Row(r, e) : e \in r.entries}
           /\ Rows(r.id) = {}
<1>1. AcceptedEntries(r) = r.entries /\ r.entries # {}
    BY DEF ApplyFresh, AcceptedEntries
<1>2. \A e \in r.entries : EntryHolds(e)
    BY DEF ApplyFresh, AcceptedEntries
<1>3. \A e \in r.entries : e.player \in roster
    BY <1>2 DEF EntryHolds, Actionable
<1> QED BY <1>1, <1>2, <1>3, RequestFields DEF ApplyFresh

\* An applied entry leaves a well-typed row in the history.
LEMMA RowType ==
    ASSUME TypeOK, NEW r \in sent, NEW e \in r.entries, EntryHolds(e)
    PROVE  Row(r, e) \in HistoryRows
<1>1. e \in Entries /\ r.id \in RequestIds /\ r.entries \subseteq Entries
    BY RequestFields
<1>2. e.player \in Players /\ e.token \in Tokens
    BY <1>1, EntryFields
<1>3. assigned[e.player] \in Handicaps /\ Recommended(e.player) \in Handicaps
    BY <1>2, RecommendationTypes DEF TypeOK
<1> QED BY <1>1, <1>2, <1>3 DEF Row, HistoryRows

\* Serving a request, in whichever way, keeps the types.
LEMMA ServingType ==
    ASSUME TypeOK, NEW r \in sent, Serving(r)
    PROVE  TypeOK'
<1>1. CASE BeginApply(r)
    BY <1>1 DEF BeginApply, TypeOK, playerVars, inputVars, clientVars
<1>2. CASE ApplyFresh(r)
    <2>1. r \in begun /\ Answer(r, "applied") /\ UNCHANGED <<existing, adminHold>>
        BY <1>2 DEF ApplyFresh
    <2>2. assigned' \in [Players -> Handicaps]
        BY <1>2, RecommendationTypes DEF ApplyFresh, TypeOK
    <2>3. \A e \in r.entries : Row(r, e) \in HistoryRows /\ Row(r, e).player \in existing
        <3> SUFFICES ASSUME NEW e \in r.entries
                     PROVE  Row(r, e) \in HistoryRows /\ Row(r, e).player \in existing
            OBVIOUS
        <3>1. EntryHolds(e) /\ e.player \in roster
            BY <1>2, FreshForm
        <3>2. Row(r, e).player = e.player
            BY DEF Row
        <3> QED BY <3>1, <3>2, RowType DEF TypeOK
    <2>4. history' = history \cup {Row(r, e) : e \in r.entries}
        BY <1>2, FreshForm
    <2>5. /\ history' \subseteq HistoryRows
          /\ \A row \in history' : row.player \in existing
        BY <2>3, <2>4 DEF TypeOK
    <2>6. /\ begun' \subseteq sent' /\ told' \in [Clients -> Told]
          /\ UNCHANGED <<inputVars, season, page, asked, sent, edits>>
        BY <2>1, AnswerType DEF Told
    <2> QED BY <2>1, <2>2, <2>5, <2>6 DEF TypeOK, Told, inputVars
<1>3. CASE Replay(r)
    <2>1. /\ begun' \subseteq sent' /\ told' \in [Clients -> Told]
          /\ UNCHANGED <<inputVars, season, page, asked, sent, edits>>
        BY <1>3, AnswerType DEF Replay, Told
    <2> QED BY <1>3, <2>1 DEF Replay, TypeOK, Told, playerVars, inputVars
<1>4. CASE Refuse(r)
    <2>1. /\ begun' \subseteq sent' /\ told' \in [Clients -> Told]
          /\ UNCHANGED <<inputVars, season, page, asked, sent, edits>>
        BY <1>4, AnswerType DEF Refuse, Told
    <2> QED BY <1>4, <2>1 DEF Refuse, TypeOK, Told, playerVars, inputVars
<1> QED BY <1>1, <1>2, <1>3, <1>4 DEF Serving

Moved(row, source, target) == [row EXCEPT !.player = Repointed(@, source, target)]

\* A merge gives rows another player and changes nothing else of them.
LEMMA MovedRow ==
    ASSUME NEW row \in HistoryRows, NEW source \in Players, NEW target \in Players
    PROVE  /\ Moved(row, source, target) \in HistoryRows
           /\ Moved(row, source, target).request = row.request
           /\ Moved(row, source, target).hash = row.hash
           /\ Moved(row, source, target).token = row.token
           /\ Moved(row, source, target).player = Repointed(row.player, source, target)
BY DEF Moved, HistoryRows, Repointed

\* What a merge does to the history and the roster.
LEMMA MergeForm ==
    ASSUME NEW source, NEW target, NEW combined, MergePlayers(source, target, combined)
    PROVE  history' = {Moved(row, source, target) : row \in history}
BY DEF MergePlayers, Moved

\* A merge keeps the types: the rows move to a player that stays.
LEMMA MergeType ==
    ASSUME TypeOK, NEW source \in Players, NEW target \in Players,
           NEW combined \in Samples, MergePlayers(source, target, combined)
    PROVE  TypeOK'
<1>1. /\ history' \subseteq HistoryRows
      /\ \A row \in history' : row.player \in existing'
    <2> SUFFICES ASSUME NEW row \in history
                 PROVE  /\ Moved(row, source, target) \in HistoryRows
                        /\ Moved(row, source, target).player \in existing'
        BY MergeForm
    <2>1. row \in HistoryRows /\ row.player \in existing
        BY DEF TypeOK
    <2> QED BY <2>1, MovedRow DEF MergePlayers, Repointed
<1>2. existing' \subseteq Players /\ roster' \subseteq existing'
    BY DEF MergePlayers, TypeOK, Repointed
<1>3. samples' \in [Players -> Samples]
    BY SamplesAssumption DEF MergePlayers, TypeOK
<1>4. edits' \in Nat
    BY DEF MergePlayers, Edit, TypeOK
<1> QED BY <1>1, <1>2, <1>3, <1>4 DEF MergePlayers, TypeOK, clientVars

\* What happens around a review keeps the types.
LEMMA SurroundingsType ==
    ASSUME TypeOK, Surroundings
    PROVE  TypeOK'
<1>1. CASE \E p \in Players, h \in Handicaps, hold \in BOOLEAN : UpdatePlayer(p, h, hold)
    BY <1>1 DEF UpdatePlayer, Edit, TypeOK, inputVars, clientVars
<1>2. CASE \E p \in Players, s \in Samples : ChangeRacks(p, s)
    BY <1>2 DEF ChangeRacks, Edit, TypeOK, playerVars, clientVars
<1>3. CASE \E new \in RuleSets : SaveRules(new)
    BY <1>3 DEF SaveRules, Edit, TypeOK, playerVars, clientVars
<1>4. CASE \E p \in Players : ChangeRoster(p)
    BY <1>4 DEF ChangeRoster, Edit, TypeOK, playerVars, clientVars
<1>5. CASE MoveSeason
    BY <1>5 DEF MoveSeason, Edit, TypeOK, playerVars, inputVars, clientVars
<1>6. CASE \E source, target \in Players, combined \in Samples :
              MergePlayers(source, target, combined)
    BY <1>6, MergeType
<1> QED BY <1>1, <1>2, <1>3, <1>4, <1>5, <1>6 DEF Surroundings

\* Types are inductive.
LEMMA TypeNext == TypeOK /\ [Next]_vars => TypeOK'
<1> SUFFICES ASSUME TypeOK, [Next]_vars PROVE TypeOK'
    OBVIOUS
<1>1. CASE UNCHANGED vars
    BY <1>1 DEF TypeOK, vars, playerVars, inputVars, clientVars
<1>2. CASE Next
    BY <1>2, ReviewingType, ServingType, SurroundingsType DEF Next
<1> QED BY <1>1, <1>2

\* Every reachable state is well typed, and no history row or roster entry
\* refers to a player that a merge has deleted.
THEOREM TypeCorrect == Spec => []TypeOK
BY TypeInit, TypeNext, PTL DEF Spec

-----------------------------------------------------------------------------
(* The inductive invariant.  RecordedWhole is inductive by itself; what a    *)
(* client is told stays true because the rows of an id that has some are     *)
(* never added to, for which a request must name at least one entry.         *)

RequestsInv ==
    /\ \A r \in sent : r.entries # {}
    /\ \A c \in Clients : told[c] # "nothing" => asked[c] \in sent
IInv == TypeOK /\ RequestsInv /\ RecordedWhole /\ ToldIsRecorded

\* Nothing is sent, recorded or told at the start.
LEMMA InitSafety == Init => RequestsInv /\ RecordedWhole /\ ToldIsRecorded
BY DEF Init, RequestsInv, RecordedWhole, ToldIsRecorded

\* Requests stay well formed, and only their sender is told of them.
LEMMA RequestsNext ==
    ASSUME TypeOK, RequestsInv, [Next]_vars
    PROVE  RequestsInv'
<1>1. CASE UNCHANGED <<sent, asked, told>>
    BY <1>1 DEF RequestsInv
<1>2. CASE \E c \in Clients : Reviewing(c)
    <2>1. PICK c \in Clients : Reviewing(c)
        BY <1>2
    <2>2. CASE FetchRecommendations(c)
        BY <2>2 DEF FetchRecommendations, RequestsInv, TypeOK
    <2>3. CASE \E selected \in SUBSET page[c], id \in RequestIds : ConfirmApply(c, selected, id)
        <3>1. PICK selected \in SUBSET page[c], id \in RequestIds : ConfirmApply(c, selected, id)
            BY <2>3
        <3> DEFINE r == [client |-> c, id |-> id, entries |-> selected]
        <3>2. r.entries # {}
            BY <3>1 DEF ConfirmApply
        <3>3. asked' = [asked EXCEPT ![c] = r] /\ sent' = sent \cup {r}
              /\ told' = [told EXCEPT ![c] = "waiting"]
            BY <3>1 DEF ConfirmApply
        <3> HIDE DEF r
        <3> QED BY <3>2, <3>3 DEF RequestsInv, TypeOK
    <2>4. CASE LoseConnection(c)
        BY <2>4 DEF LoseConnection, RequestsInv, TypeOK
    <2>5. CASE RefuseClosed(c)
        BY <2>5 DEF RefuseClosed, RequestsInv, TypeOK
    <2> QED BY <2>1, <2>2, <2>3, <2>4, <2>5 DEF Reviewing
<1>3. CASE \E r \in sent : Serving(r)
    <2>1. PICK r \in sent : Serving(r)
        BY <1>3
    <2>2. CASE BeginApply(r)
        BY <2>2, <1>1 DEF BeginApply, clientVars
    <2>3. CASE \E outcome \in Told : Answer(r, outcome)
        BY <2>3 DEF Answer, RequestsInv, TypeOK
    <2> QED BY <2>1, <2>2, <2>3 DEF Serving, ApplyFresh, Replay, Refuse, Told
<1>4. CASE Surroundings
    BY <1>4, <1>1 DEF Surroundings, UpdatePlayer, ChangeRacks, SaveRules, ChangeRoster,
                      MoveSeason, MergePlayers, clientVars
<1> QED BY <1>1, <1>2, <1>3, <1>4 DEF Next, vars, clientVars

-----------------------------------------------------------------------------
(* How the history may change: not at all, by a merge, or by the rows of a   *)
(* request whose id has none yet.                                            *)

\* A step that changes the history applies a request under an id that has no row
\* yet, or merges two players.
LEMMA HistorySteps ==
    ASSUME TypeOK, [Next]_vars
    PROVE  \/ UNCHANGED history
           \/ \E r \in sent : ApplyFresh(r)
           \/ \E source, target \in Players, combined \in Samples :
                 MergePlayers(source, target, combined)
<1>1. CASE \E c \in Clients : Reviewing(c)
    BY <1>1 DEF Reviewing, FetchRecommendations, ConfirmApply, LoseConnection, RefuseClosed
<1>2. CASE \E r \in sent : Serving(r)
    BY <1>2 DEF Serving, BeginApply, Replay, Refuse
<1>3. CASE Surroundings
    BY <1>3 DEF Surroundings, UpdatePlayer, ChangeRacks, SaveRules, ChangeRoster, MoveSeason
<1> QED BY <1>1, <1>2, <1>3 DEF Next, vars

\* The rows of a request differ by their tokens.
LEMMA RowsByToken ==
    ASSUME TypeOK, NEW r \in sent, ApplyFresh(r), NEW e \in r.entries, NEW f \in r.entries,
           Row(r, e).token = Row(r, f).token
    PROVE  Row(r, e) = Row(r, f)
<1>1. e.token = f.token
    BY DEF Row
<1>2. RecToken(e.player) = e.token /\ RecToken(f.player) = f.token
    BY FreshForm DEF EntryHolds
<1>3. e.player = f.player
    BY <1>1, <1>2 DEF RecToken
<1> QED BY <1>1, <1>3 DEF Row

\* What was sent may arrive at any later time.
LEMMA SentGrows ==
    ASSUME [Next]_vars
    PROVE  sent \subseteq sent'
<1>1. CASE \E c \in Clients : Reviewing(c)
    BY <1>1 DEF Reviewing, FetchRecommendations, ConfirmApply, LoseConnection, RefuseClosed
<1>2. CASE \E r \in sent : Serving(r)
    BY <1>2 DEF Serving, BeginApply, ApplyFresh, Replay, Refuse, Answer
<1>3. CASE Surroundings
    BY <1>3 DEF Surroundings, UpdatePlayer, ChangeRacks, SaveRules, ChangeRoster,
                MoveSeason, MergePlayers
<1> QED BY <1>1, <1>2, <1>3 DEF Next, vars

\* Requests stay recorded whole: rows come all at once and merges move them.
LEMMA RecordedNext ==
    ASSUME TypeOK, RecordedWhole, [Next]_vars
    PROVE  RecordedWhole'
<1>0. sent \subseteq sent'
    BY SentGrows
<1>1. CASE UNCHANGED history
    BY <1>0, <1>1 DEF RecordedWhole, Rows, TokensOf
<1>2. CASE \E r \in sent : ApplyFresh(r)
    <2>1. PICK r \in sent : ApplyFresh(r)
        BY <1>2
    <2> DEFINE new == {Row(r, e) : e \in r.entries}
    <2>2. history' = history \cup new /\ Rows(r.id) = {}
        BY <2>1, FreshForm
    <2>3. \A row \in new : row.request = r.id /\ row.hash = r.entries
        BY DEF Row
    <2>4. TokensOf(new) = TokensOf(r.entries)
        <3>1. \A e \in r.entries : Row(r, e).token = e.token
            BY DEF Row
        <3> QED BY <3>1 DEF TokensOf
    <2>5. \A row, other \in new : row.token = other.token => row = other
        BY <2>1, RowsByToken
    <2>6. Rows(r.id)' = new
        BY <2>2, <2>3 DEF Rows
    <2>7. \A row \in history : row.request # r.id /\ Rows(row.request)' = Rows(row.request)
        BY <2>2, <2>3 DEF Rows
    <2>8. \A rows : TokensOf(rows)' = TokensOf(rows)
        BY DEF TokensOf
    <2> HIDE DEF new
    <2> SUFFICES ASSUME NEW row \in history'
                 PROVE  /\ \E q \in sent' : q.id = row.request /\ q.entries = row.hash
                        /\ TokensOf(Rows(row.request)') = TokensOf(row.hash)
                        /\ \A other \in Rows(row.request)' :
                              other.hash = row.hash /\ (other.token = row.token => other = row)
        BY <2>8 DEF RecordedWhole
    <2>9. CASE row \in new
        BY <1>0, <2>3, <2>4, <2>5, <2>6, <2>9
    <2>10. CASE row \in history
        BY <1>0, <2>7, <2>10 DEF RecordedWhole
    <2> QED BY <2>2, <2>9, <2>10
<1>3. CASE \E source, target \in Players, combined \in Samples :
              MergePlayers(source, target, combined)
    <2>1. PICK source, target \in Players, combined \in Samples :
              MergePlayers(source, target, combined)
        BY <1>3
    <2> DEFINE M(row) == Moved(row, source, target)
    <2>2. history' = {M(row) : row \in history}
        BY <2>1, MergeForm
    <2>3. \A row \in history : /\ M(row).request = row.request /\ M(row).hash = row.hash
                               /\ M(row).token = row.token
        BY MovedRow DEF TypeOK
    <2> HIDE DEF M
    <2>4. \A id : Rows(id)' = {M(row) : row \in Rows(id)}
        BY <2>2, <2>3 DEF Rows
    <2>5. \A id : TokensOf(Rows(id)') = TokensOf(Rows(id))
        BY <2>3, <2>4 DEF TokensOf, Rows
    <2> SUFFICES ASSUME NEW row \in history
                 PROVE  /\ \E q \in sent' : q.id = M(row).request /\ q.entries = M(row).hash
                        /\ TokensOf(Rows(M(row).request)') = TokensOf(M(row).hash)
                        /\ \A other \in Rows(M(row).request)' :
                              /\ other.hash = M(row).hash
                              /\ other.token = M(row).token => other = M(row)
        BY <2>2 DEF RecordedWhole
    <2>6. /\ \E q \in sent' : q.id = M(row).request /\ q.entries = M(row).hash
          /\ TokensOf(Rows(M(row).request)') = TokensOf(M(row).hash)
        BY <1>0, <2>3, <2>5 DEF RecordedWhole
    <2>7. ASSUME NEW other \in Rows(M(row).request)'
          PROVE  /\ other.hash = M(row).hash
                 /\ other.token = M(row).token => other = M(row)
        <3>1. PICK old \in Rows(row.request) : other = M(old)
            BY <2>3, <2>4
        <3>2. old \in history
            BY DEF Rows
        <3>3. old.hash = row.hash /\ (old.token = row.token => old = row)
            BY DEF RecordedWhole
        <3> QED BY <2>3, <3>1, <3>2, <3>3
    <2> QED BY <2>6, <2>7
<1> QED BY <1>1, <1>2, <1>3, HistorySteps

\* The tokens under an id change only when it has no row.
LEMMA TokensKept ==
    ASSUME TypeOK, [Next]_vars, NEW id, Rows(id) # {}
    PROVE  TokensOf(Rows(id)') = TokensOf(Rows(id))
<1>1. CASE UNCHANGED history
    BY <1>1 DEF Rows
<1>2. CASE \E r \in sent : ApplyFresh(r)
    <2>1. PICK r \in sent : ApplyFresh(r)
        BY <1>2
    <2>2. history' = history \cup {Row(r, e) : e \in r.entries} /\ Rows(r.id) = {}
        BY <2>1, FreshForm
    <2>3. \A e \in r.entries : Row(r, e).request = r.id
        BY DEF Row
    <2>4. Rows(id)' = Rows(id)
        BY <2>2, <2>3 DEF Rows
    <2> QED BY <2>4
<1>3. CASE \E source, target \in Players, combined \in Samples :
              MergePlayers(source, target, combined)
    <2>1. PICK source, target \in Players, combined \in Samples :
              MergePlayers(source, target, combined)
        BY <1>3
    <2> DEFINE M(row) == Moved(row, source, target)
    <2>2. history' = {M(row) : row \in history}
        BY <2>1, MergeForm
    <2>3. \A row \in history : M(row).request = row.request /\ M(row).token = row.token
        BY MovedRow DEF TypeOK
    <2> HIDE DEF M
    <2>4. Rows(id)' = {M(row) : row \in Rows(id)}
        BY <2>2, <2>3 DEF Rows
    <2> QED BY <2>3, <2>4 DEF TokensOf, Rows
<1> QED BY <1>1, <1>2, <1>3, HistorySteps

Done == {"applied", "replayed"}

\* A client learns of success from its own request, or knew before.
LEMMA AnswersGiven ==
    ASSUME TypeOK, [Next]_vars, NEW c \in Clients, told'[c] \in Done
    PROVE  \/ told'[c] = told[c] /\ asked'[c] = asked[c]
           \/ asked' = asked /\ \E r \in sent : asked[c] = r /\ (ApplyFresh(r) \/ Replay(r))
<1>1. CASE UNCHANGED <<told, asked>>
    BY <1>1
<1>2. CASE \E d \in Clients : Reviewing(d)
    <2>1. PICK d \in Clients : Reviewing(d)
        BY <1>2
    <2>2. CASE FetchRecommendations(d)
        BY <2>2 DEF FetchRecommendations, TypeOK, Done
    <2>3. CASE \E selected \in SUBSET page[d], id \in RequestIds : ConfirmApply(d, selected, id)
        <3>1. c # d
            BY <2>3 DEF ConfirmApply, TypeOK, Done
        <3> QED BY <2>3, <3>1 DEF ConfirmApply, TypeOK
    <2>4. CASE LoseConnection(d) \/ RefuseClosed(d)
        BY <2>4 DEF LoseConnection, RefuseClosed, TypeOK, Done
    <2> QED BY <2>1, <2>2, <2>3, <2>4 DEF Reviewing
<1>3. CASE \E r \in sent : Serving(r)
    <2>1. PICK r \in sent : Serving(r)
        BY <1>3
    <2>2. CASE BeginApply(r)
        BY <2>2 DEF BeginApply, clientVars
    <2>3. CASE Refuse(r)
        BY <2>3 DEF Refuse, Answer, TypeOK, Done
    <2>4. CASE ApplyFresh(r) \/ Replay(r)
        BY <2>4 DEF ApplyFresh, Replay, Answer, TypeOK
    <2> QED BY <2>1, <2>2, <2>3, <2>4 DEF Serving
<1>4. CASE Surroundings
    BY <1>4 DEF Surroundings, UpdatePlayer, ChangeRacks, SaveRules, ChangeRoster,
                MoveSeason, MergePlayers, clientVars
<1> QED BY <1>1, <1>2, <1>3, <1>4 DEF Next, vars, clientVars

\* Who is told of success finds the rows, and finds them ever after.
LEMMA ToldNext ==
    ASSUME IInv, [Next]_vars
    PROVE  ToldIsRecorded'
<1>0. TypeOK /\ RequestsInv /\ RecordedWhole /\ ToldIsRecorded
    BY DEF IInv
<1> SUFFICES ASSUME NEW c \in Clients, told'[c] \in Done, NEW q, q = asked'[c]
             PROVE  TokensOf(Rows(q.id)') = TokensOf(q.entries)
    BY DEF ToldIsRecorded, Done, Rows
<1>1. CASE told'[c] = told[c] /\ asked'[c] = asked[c]
    <2>1. TokensOf(Rows(q.id)) = TokensOf(q.entries)
        BY <1>0, <1>1 DEF ToldIsRecorded, Done
    <2>2. q.entries # {}
        BY <1>0, <1>1 DEF RequestsInv, Done
    <2>3. Rows(q.id) # {}
        BY <2>1, <2>2 DEF TokensOf
    <2> QED BY <1>0, <2>1, <2>3, TokensKept
<1>2. CASE asked' = asked /\ \E r \in sent : asked[c] = r /\ ApplyFresh(r)
    <2>1. q \in sent /\ ApplyFresh(q)
        BY <1>2
    <2>2. history' = history \cup {Row(q, e) : e \in q.entries} /\ Rows(q.id) = {}
        BY <1>0, <2>1, FreshForm
    <2>3. \A e \in q.entries : Row(q, e).request = q.id /\ Row(q, e).token = e.token
        BY DEF Row
    <2>4. Rows(q.id)' = {Row(q, e) : e \in q.entries}
        BY <2>2, <2>3 DEF Rows
    <2> QED BY <2>3, <2>4 DEF TokensOf
<1>3. CASE asked' = asked /\ \E r \in sent : asked[c] = r /\ Replay(r)
    <2>1. q \in sent /\ Replay(q)
        BY <1>3
    <2>2. PICK row \in history : row.request = q.id
        BY <2>1 DEF Replay, Rows
    <2>3. row.hash = q.entries
        BY <2>1, <2>2 DEF Replay, SameRequest, Rows
    <2>4. TokensOf(Rows(q.id)) = TokensOf(q.entries)
        BY <1>0, <2>2, <2>3 DEF RecordedWhole
    <2>5. UNCHANGED history
        BY <2>1 DEF Replay
    <2> QED BY <2>4, <2>5 DEF Rows
<1> QED BY <1>0, <1>1, <1>2, <1>3, AnswersGiven

\* The inductive invariant holds throughout.
LEMMA Inductive == Spec => []IInv
<1>1. Init => IInv
    BY TypeInit, InitSafety DEF IInv
<1>2. IInv /\ [Next]_vars => IInv'
    BY TypeNext, RequestsNext, RecordedNext, ToldNext DEF IInv
<1> QED BY <1>1, <1>2, PTL DEF Spec

\* A request id records one request, all of it and nothing twice, however
\* often and late it arrives and whoever is merged.
THEOREM RecordedCorrect == Spec => []RecordedWhole
<1>1. IInv => RecordedWhole
    BY DEF IInv
<1> QED BY <1>1, Inductive, PTL

\* A client that is told of success finds its request in the history.
THEOREM ToldCorrect == Spec => []ToldIsRecorded
<1>1. IInv => ToldIsRecorded
    BY DEF IInv
<1> QED BY <1>1, Inductive, PTL

-----------------------------------------------------------------------------
(* What a step that records a request does to the handicaps. *)

\* A request that is applied sets the handicaps its client reviewed.
LEMMA FreshAsReviewed ==
    ASSUME TypeOK, NEW r \in sent, ApplyFresh(r), NEW e \in r.entries
    PROVE  /\ assigned[e.player] = e.assigned
           /\ assigned'[e.player] = e.recommended
           /\ Recommended(e.player) = e.recommended
           /\ Actionable(e.player)
<1>1. EntryHolds(e) /\ e.player \in Players /\ AcceptedEntries(r) = r.entries
    BY FreshForm, EntryFields
<1>2. assigned'[e.player] = Recommended(e.player)
    BY <1>1 DEF ApplyFresh
<1> QED BY <1>1, <1>2 DEF EntryHolds

\* What is applied is what was reviewed: the handicap the client saw is
\* replaced by the recommendation it saw, which is still the current one, and
\* nobody else's changes.
THEOREM AppliedCorrect == Spec => AppliedAsReviewed
<1> DEFINE Reviewed(row) ==
        /\ \E e \in row.hash :
              /\ e.player = row.player
              /\ assigned[row.player] = e.assigned /\ row.old = e.assigned
              /\ assigned'[row.player] = e.recommended /\ row.new = e.recommended
              /\ Recommended(row.player) = e.recommended
              /\ Actionable(row.player)
        /\ \A p \in Players :
              assigned'[p] # assigned[p] => \E e \in row.hash : e.player = p
<1>1. ASSUME TypeOK, [Next]_vars, NEW row \in history', Rows(row.request) = {}
      PROVE  Reviewed(row)
    <2>1. row \notin history
        BY <1>1 DEF Rows
    <2>2. CASE \E r \in sent : ApplyFresh(r)
        <3>1. PICK r \in sent : ApplyFresh(r)
            BY <2>2
        <3>2. history' = history \cup {Row(r, e) : e \in r.entries}
            BY <1>1, <3>1, FreshForm
        <3>3. PICK e \in r.entries : row = Row(r, e)
            BY <1>1, <2>1, <3>2
        <3>4. /\ row.player = e.player /\ row.hash = r.entries
              /\ row.old = assigned[e.player] /\ row.new = Recommended(e.player)
            BY <3>3 DEF Row
        <3>5. /\ assigned[e.player] = e.assigned
              /\ assigned'[e.player] = e.recommended
              /\ Recommended(e.player) = e.recommended
              /\ Actionable(e.player)
            BY <1>1, <3>1, FreshAsReviewed
        <3>6. ASSUME NEW p \in Players, assigned'[p] # assigned[p]
              PROVE  \E f \in row.hash : f.player = p
            <4>1. AcceptedEntries(r) = r.entries
                BY <1>1, <3>1, FreshForm
            <4> QED BY <3>1, <3>4, <3>6, <4>1 DEF ApplyFresh
        <3> QED BY <3>4, <3>5, <3>6
    <2>3. CASE \E source, target \in Players, combined \in Samples :
                  MergePlayers(source, target, combined)
        <3>1. PICK source, target \in Players, combined \in Samples :
                  MergePlayers(source, target, combined)
            BY <2>3
        <3>2. PICK old \in history : row = Moved(old, source, target)
            BY <1>1, <3>1, MergeForm
        <3>3. row.request = old.request
            BY <1>1, <3>2, MovedRow DEF TypeOK
        <3> QED BY <1>1, <3>3 DEF Rows
    <2> QED BY <1>1, <2>1, <2>2, <2>3, HistorySteps
<1>2. TypeOK /\ [Next]_vars =>
        [\A row \in history' : Rows(row.request) = {} => Reviewed(row)]_vars
    BY <1>1
<1> QED BY <1>2, TypeCorrect, PTL DEF Spec, AppliedAsReviewed
=============================================================================
