------------------------------ MODULE ChatWidget ------------------------------
(***************************************************************************)
(* The support chat widget (packages/chat/src/widget/index.ts) in one tab: *)
(* each initWidget() is a number; a widget taken off the page by toggle()  *)
(* goes on in its callbacks.  It keeps a thread, in memory and in the      *)
(* browser's storage, posts messages, loads the thread's history, and      *)
(* shows the replies of a stream.  The chat server is external.            *)
(*                                                                         *)
(* Text and file are posted alike and are one here; a GIF that failed is   *)
(* retried in a bubble of its own.  The site tells who is logged in        *)
(* (window.__orkify_visitor is null for nobody); that the history or the   *)
(* stream shows a message twice is not told apart.                         *)
(***************************************************************************)
EXTENDS Integers, FiniteSets

CONSTANTS People,   \* visitors that log in, by e-mail
          Threads,  \* threads the server may begin
          Posts,    \* messages of visitors
          Gifs,     \* those that are GIFs
          Replies,  \* messages of the support
          Guest,    \* nobody is logged in
          None,     \* "nothing"
          MaxWidgets, MaxSetbacks  \* bounds: widgets; failures and threads deleted

ASSUME ChatAssumption ==
    /\ Gifs \subseteq Posts
    /\ None \notin Threads \cup Posts \cup Replies /\ Guest \notin People
    /\ {MaxWidgets, MaxSetbacks} \subseteq Nat

VARIABLES visitor,   \* window.__orkify_visitor
          widgets,   \* what each initWidget() holds
          attached,  \* the widget on the page, 0 for none
          storage,   \* localStorage: the thread, by storageId
          lookedUp,  \* sessionStorage: whose thread was looked up
          bubble,    \* how each post shows, its last bubble: plain, or with "Tap to retry"
          earlier,   \* GIFs that show in an earlier bubble as well, always plain
          server,    \* external: owner and messages of each thread
          setbacks,  \* failures and threads deleted
          received,  \* history: posts the server ever took
          refused,   \* history: posts whose retry found another post under way
          changed    \* history: the visitor changed in front of the open panel

vars == <<visitor, widgets, attached, storage, lookedUp, bubble, earlier, server, setbacks,
          received, refused, changed>>
page == <<visitor, attached, storage, lookedUp, changed>>
bubbles == <<bubble, earlier, refused>>
outside == <<server, setbacks, received>>

Widgets == 1..MaxWidgets
Fresh == [who |-> None, at |-> None, thread |-> None, open |-> FALSE, loaded |-> FALSE,
          stream |-> None, timer |-> FALSE, history |-> None, post |-> None, shown |-> {}]
Up(i) == widgets[i].at = "rendered"
Holds(i, w) == widgets' = [widgets EXCEPT ![i] = w]

\* A guest is somebody else in each widget, since a site with logins clears what a guest left.
Identity(i) == IF widgets[i].who = Guest THEN i ELSE widgets[i].who

\* storageId
StorageId(who) == who

Init ==
    /\ visitor \in People \cup {Guest}
    /\ widgets = [i \in Widgets |-> Fresh] /\ attached = 0
    /\ storage = [who \in People \cup {Guest} |-> None] /\ lookedUp = {}
    /\ bubble = [m \in Posts |-> None] /\ earlier = {}
    /\ server = [t \in Threads |-> [owner |-> None, log |-> {}]]
    /\ setbacks = 0 /\ received = {} /\ refused = {} /\ changed = FALSE
----------------------------------------------------------------------------
(* initWidget(), and init() from one await to the next. *)

\* What is stored when a widget of this visitor begins.
Stored(who) == IF who = Guest THEN [storage EXCEPT ![StorageId(Guest)] = None] ELSE storage

Began(i, open) ==
    [Fresh EXCEPT !.who = visitor, !.at = "configuring", !.open = open,
                  !.thread = Stored(visitor)[StorageId(visitor)]]

Begin ==
    /\ attached = 0 /\ \E i \in Widgets :
         /\ widgets[i].at = None /\ \A j \in Widgets : j < i => widgets[j].at # None
         /\ Holds(i, Began(i, FALSE)) /\ attached' = i /\ storage' = Stored(visitor)
    /\ changed' = FALSE
    /\ UNCHANGED <<visitor, lookedUp, bubbles>> /\ UNCHANGED outside

\* connectSSE()
Streams(w) == IF w.thread = None THEN w ELSE [w EXCEPT !.stream = w.thread, !.timer = FALSE]

\* ensureSession(), with loadHistory() up to its answer
Session(w) ==
    IF w.loaded \/ w.thread = None THEN w
    ELSE Streams([w EXCEPT !.loaded = TRUE, !.history = [of |-> w.thread]])

\* render(): a widget that replaces an open one opens at once.
Rendered(w) == IF w.open THEN Session([w EXCEPT !.at = "rendered"]) ELSE [w EXCEPT !.at = "rendered"]

ToLookUp(i) == widgets[i].who # Guest /\ widgets[i].thread = None /\ widgets[i].who \notin lookedUp

Configured(i) ==
    /\ widgets[i].at = "configuring"
    /\ Holds(i, IF ToLookUp(i) THEN [widgets[i] EXCEPT !.at = "looking up"] ELSE Rendered(widgets[i]))
    /\ UNCHANGED <<page, bubbles>> /\ UNCHANGED outside

NotConfigured(i) ==
    /\ widgets[i].at = "configuring" /\ setbacks < MaxSetbacks /\ setbacks' = setbacks + 1
    /\ Holds(i, [widgets[i] EXCEPT !.at = "failed"])
    /\ UNCHANGED <<page, bubbles, server, received>>

\* The server finds a thread by e-mail, or none, or does not answer.
LookedUp(i) ==
    /\ widgets[i].at = "looking up" /\ lookedUp' = lookedUp \cup {widgets[i].who}
    /\ \E t \in {None} \cup {u \in Threads : server[u].owner = widgets[i].who} :
         /\ Holds(i, Rendered([widgets[i] EXCEPT !.thread = t]))
         /\ storage' = IF t = None THEN storage ELSE [storage EXCEPT ![StorageId(widgets[i].who)] = t]
    /\ UNCHANGED <<visitor, attached, changed, bubbles>> /\ UNCHANGED outside
----------------------------------------------------------------------------
(* The page: logins, the launcher, a reload. *)

LogsInOrOut ==
    /\ \E v \in People \cup {Guest} : v # visitor /\ visitor' = v
    /\ changed' = (attached # 0 /\ widgets[attached].open /\ widgets[attached].who # visitor')
    /\ UNCHANGED <<widgets, attached, storage, lookedUp, bubbles>> /\ UNCHANGED outside

\* toggle() of a widget of another visitor: its stream and timer end, a new widget begins.
Replaces ==
    /\ attached # 0 /\ Up(attached) /\ widgets[attached].who # visitor
    /\ \E i \in Widgets :
         /\ i = attached + 1 /\ widgets[i].at = None /\ attached' = i
         /\ widgets' = [widgets EXCEPT ![attached].at = "removed", ![attached].stream = None,
                                       ![attached].timer = FALSE, ![i] = Began(i, TRUE)]
    /\ storage' = Stored(visitor) /\ changed' = FALSE
    /\ UNCHANGED <<visitor, lookedUp, bubbles>> /\ UNCHANGED outside

Toggles ==
    /\ attached # 0 /\ Up(attached) /\ widgets[attached].who = visitor
    /\ LET w == [widgets[attached] EXCEPT !.open = ~@]
       IN Holds(attached, IF w.open THEN Session(w) ELSE w)
    /\ changed' = FALSE
    /\ UNCHANGED <<visitor, attached, storage, lookedUp, bubbles>> /\ UNCHANGED outside

\* The page is loaded anew: nothing of its widgets is left but what is stored.
Reloads ==
    /\ attached # 0 /\ attached' = 0 /\ changed' = FALSE
    /\ widgets' = [i \in Widgets |-> IF widgets[i].at = None THEN Fresh ELSE [Fresh EXCEPT !.at = "gone"]]
    /\ UNCHANGED <<visitor, storage, lookedUp, bubbles>> /\ UNCHANGED outside
----------------------------------------------------------------------------
(* Posts: sendMessage(), sendGif(), uploadFile() and their retries. *)

Posting(i, m) == [widgets[i] EXCEPT !.post = [m |-> m, to |-> widgets[i].thread, got |-> None],
                                    !.shown = @ \cup {m}]

Sends(i, m) ==
    /\ i = attached /\ Up(i) /\ widgets[i].open /\ bubble[m] = None
    /\ widgets[i].post = None
    /\ Holds(i, Posting(i, m)) /\ bubble' = [bubble EXCEPT ![m] = "plain"]
    /\ UNCHANGED <<page, earlier, refused>> /\ UNCHANGED outside

\* "Tap to retry": the error row goes first; a retry that finds another post under way
\* (isSending) does no more.
TapsRetry(i, m) ==
    /\ i = attached /\ Up(i) /\ widgets[i].open /\ m \in widgets[i].shown /\ bubble[m] = "failed"
    /\ bubble' = [bubble EXCEPT ![m] = "plain"]
    /\ IF widgets[i].post = None THEN Holds(i, Posting(i, m)) /\ UNCHANGED refused
       ELSE refused' = refused \cup {m} /\ UNCHANGED widgets
    /\ UNCHANGED page /\ UNCHANGED outside

\* Text and files keep their bubble, ...
Retries(i, m) == m \notin Gifs /\ TapsRetry(i, m) /\ UNCHANGED earlier

\* ... sendGif() shows a GIF in a further one, and nothing marks the one before any more.
RetriesGif(i, m) ==
    /\ m \in Gifs /\ TapsRetry(i, m)
    /\ earlier' = IF widgets[i].post = None THEN earlier \cup {m} ELSE earlier

\* External: the server takes the post, in its thread if it has it, else in one of this visitor.
Takes(i) ==
    /\ widgets[i].post # None /\ widgets[i].post.got = None
    /\ \E t \in Threads :
         /\ IF widgets[i].post.to # None /\ server[widgets[i].post.to].owner # None
            THEN t = widgets[i].post.to
            ELSE server[t].owner \in {None, Identity(i)}
         /\ server[t].owner = None => server[t].log = {}
         /\ server' = [server EXCEPT ![t].owner = IF @ = None THEN Identity(i) ELSE @,
                                     ![t].log = @ \cup {widgets[i].post.m}]
         /\ Holds(i, [widgets[i] EXCEPT !.post.got = t])
    /\ received' = received \cup {widgets[i].post.m}
    /\ UNCHANGED <<page, bubbles, setbacks>>

Ended(w) == [w EXCEPT !.post = None]

PostAnswered(i) ==
    /\ widgets[i].post # None /\ widgets[i].post.got # None
    /\ LET t == widgets[i].post.got IN
       IF t = widgets[i].thread THEN Holds(i, Ended(widgets[i])) /\ UNCHANGED storage
       ELSE /\ Holds(i, Streams([Ended(widgets[i]) EXCEPT !.thread = t]))
            /\ storage' = [storage EXCEPT ![StorageId(widgets[i].who)] = t]
    /\ UNCHANGED <<visitor, attached, lookedUp, changed, bubbles>> /\ UNCHANGED outside

\* The request fails, or its answer is lost.
PostFailsQuietly(i) ==
    /\ widgets[i].post # None /\ setbacks < MaxSetbacks /\ setbacks' = setbacks + 1
    /\ Holds(i, Ended(widgets[i]))
    /\ UNCHANGED <<page, bubbles, server, received>>
PostFails(i) ==
    /\ widgets[i].post # None /\ setbacks < MaxSetbacks /\ setbacks' = setbacks + 1
    /\ Holds(i, Ended(widgets[i]))
    /\ bubble' = [bubble EXCEPT ![widgets[i].post.m] = "failed"]
    /\ UNCHANGED <<page, earlier, refused, server, received>>
----------------------------------------------------------------------------
(* History and stream. *)

HistoryAnswered(i) ==
    /\ widgets[i].history # None
    /\ LET w == [widgets[i] EXCEPT !.history = None]
           t == widgets[i].history.of
       IN IF server[t].owner # None
          THEN Holds(i, [w EXCEPT !.shown = @ \cup server[t].log]) /\ UNCHANGED storage
          ELSE /\ Holds(i, [w EXCEPT !.thread = None])
               /\ storage' = [storage EXCEPT ![StorageId(w.who)] = None]
    /\ UNCHANGED <<visitor, attached, lookedUp, changed, bubbles>> /\ UNCHANGED outside

\* The next opening may try again; another error than "not found" is taken for an answer.
HistoryFails(i) ==
    /\ widgets[i].history # None /\ setbacks < MaxSetbacks /\ setbacks' = setbacks + 1
    /\ \E loaded \in BOOLEAN : Holds(i, [widgets[i] EXCEPT !.history = None, !.loaded = loaded])
    /\ UNCHANGED <<page, bubbles, server, received>>

\* eventSource.onerror
StreamFailsForGood(i) ==
    /\ widgets[i].stream # None /\ setbacks < MaxSetbacks /\ setbacks' = setbacks + 1
    /\ Holds(i, [widgets[i] EXCEPT !.stream = None])
    /\ UNCHANGED <<page, bubbles, server, received>>
StreamFails(i) ==
    /\ widgets[i].stream # None /\ setbacks < MaxSetbacks /\ setbacks' = setbacks + 1
    /\ Holds(i, [widgets[i] EXCEPT !.stream = None, !.timer = TRUE])
    /\ UNCHANGED <<page, bubbles, server, received>>

Reconnects(i) ==
    /\ widgets[i].timer
    /\ Holds(i, Streams([widgets[i] EXCEPT !.timer = FALSE]))
    /\ UNCHANGED <<page, bubbles>> /\ UNCHANGED outside

\* eventSource.onmessage
Streamed(w, t, m) == IF w.stream = t THEN [w EXCEPT !.shown = @ \cup {m}] ELSE w

\* External: the support answers, and who streams the thread shows it.
Replied(t, m) ==
    /\ server[t].owner # None /\ \A u \in Threads : m \notin server[u].log
    /\ server' = [server EXCEPT ![t].log = @ \cup {m}]
    /\ widgets' = [i \in Widgets |-> Streamed(widgets[i], t, m)]
    /\ UNCHANGED <<page, bubbles, setbacks, received>>

\* External: a thread is deleted.
Forgets(t) ==
    /\ server[t].owner # None /\ setbacks < MaxSetbacks /\ setbacks' = setbacks + 1
    /\ server' = [server EXCEPT ![t].owner = None]
    /\ UNCHANGED <<page, widgets, bubbles, received>>

Advances(i) == Configured(i) \/ LookedUp(i) \/ PostAnswered(i) \/ Takes(i) \/ HistoryAnswered(i) \/ Reconnects(i)

Next ==
    \/ Begin \/ LogsInOrOut \/ Replaces \/ Toggles \/ Reloads
    \/ \E i \in Widgets, m \in Posts : Sends(i, m) \/ Retries(i, m) \/ RetriesGif(i, m)
    \/ \E i \in Widgets : Advances(i) \/ NotConfigured(i) \/ PostFails(i) \/ HistoryFails(i) \/ StreamFails(i)
    \/ \E t \in Threads : Forgets(t) \/ \E m \in Replies : Replied(t, m)

Spec == Init /\ [][Next]_vars

\* Requests are answered or fail, and the timers fire.
FairSpec == Spec /\ \A i \in Widgets : WF_vars(Advances(i))
----------------------------------------------------------------------------
(* Properties. *)

Alive == {i \in Widgets : widgets[i].at \notin {None, "gone"}}

\* What one visitor wrote or was answered never shows in a widget of another, however logins,
\* reloads and late answers fall, and the panel that opens is that of the visitor at the page:
\* "so logged-out users don't see a previous user's conversation" (index.ts:351-352).  A panel
\* that is open already when the visitor changes stays until toggle() finds out.
Private ==
    /\ \A i \in Alive, t \in Threads :
          server[t].owner # None /\ server[t].log \cap widgets[i].shown # {} =>
              server[t].owner = Identity(i)
    /\ attached # 0 /\ widgets[attached].open /\ ~changed => widgets[attached].who = visitor

\* A post whose last bubble shows no error is under way or has reached the server
\* (index.ts:1322-1535), but for one whose retry found another under way.
SentOrFailed ==
    \A i \in Alive, m \in Posts \ refused :
        m \in widgets[i].shown /\ bubble[m] = "plain" =>
            m \in received \/ \E j \in Alive : widgets[j].post # None /\ widgets[j].post.m = m

\* What a widget shows is the visitor's own, and true (index.ts:343-362, 1316-1442).
ShownIsTrue == Private /\ SentOrFailed

\* The same of every bubble: an earlier one of a GIF shows no error ("Failed to send",
\* index.ts:1329), so the GIF has reached the server or is under way.
EveryBubbleTrue ==
    \A i \in Alive, m \in earlier \ refused :
        m \in widgets[i].shown =>
            m \in received \/ \E j \in Alive : widgets[j].post # None /\ widgets[j].post.m = m

\* The panel on the page is that of the visitor at the page, at any time (index.ts:351-352).
SeenByOwner ==
    attached # 0 /\ Up(attached) /\ widgets[attached].open => widgets[attached].who = visitor

\* A widget on the page that has begun its session streams its thread again after any error
\* (index.ts:1563-1573), unless the thread is deleted.
StreamRuns ==
    \A i \in Widgets :
        (Up(i) /\ widgets[i].loaded) ~>
            (~Up(i) \/ widgets[i].thread = None \/ widgets[i].stream = widgets[i].thread)

\* "Load history + connect SSE on first open (lazy)" (index.ts:527): what a widget shows it does
\* not load again as history.
LoadedOnce ==
    \A i \in Alive : Up(i) /\ widgets[i].history # None =>
        widgets[i].shown \cap Posts \cap server[widgets[i].history.of].log = {}
=============================================================================
