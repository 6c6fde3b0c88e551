------------------------------ MODULE Tracker ------------------------------
(***************************************************************************)
(* The first question to a tracker (torrent.rs, request_tracker): the URLs *)
(* of the torrent file are tried in turn, over HTTP or UDP, until one      *)
(* answers.  Nothing has a timeout and nothing is sent again; what a UDP   *)
(* tracker answers is checked by assertions, which end the main task.      *)
(***************************************************************************)
EXTENDS Integers, Sequences

CONSTANTS
    Scheme,      \* of each URL: "http", "udp", another one, or "bad": a udp URL
                 \* whose port is no u16, an http URL that cannot be built
    MaxLost,     \* bound: answers that get lost
    MaxRepeated  \* bound: datagrams that arrive twice

VARIABLES
    urls,            \* possible_urls still to be tried, the current one first
    asking,          \* "no", "next", "http", "connect", "announce", "done",
                     \* "failed" or "panicked"
    transaction_id,  \* of the last UDP request; random in the code
    net,             \* the answers under way to the socket of this URL
    answer,          \* the TrackerResponse
    lost,            \* answers lost for this question (bound)
    repeated         \* datagrams repeated for this question (bound)

trackerVars == <<urls, asking, transaction_id, net, answer, lost, repeated>>

\* TrackerResponse: its interval, and whether it names the peers of the model.
Response == [interval : {"zero", "positive"}, named : BOOLEAN]
Junk == [interval |-> "positive", named |-> FALSE]

\* Before it is asked.
NotAsked(u, a, t, n, r, l, d) ==
    /\ u = <<>> /\ a = "no" /\ t = 0 /\ n = {} /\ r = Junk /\ l = 0 /\ d = 0
TrackerInit == NotAsked(urls, asking, transaction_id, net, answer, lost, repeated)
TrackerCrash == NotAsked(urls', asking', transaction_id', net', answer', lost', repeated')

\* An error is short or long: as long as an announce response at least.
Answers(kind, id) ==
    [kind : {kind}, id : {id}, response : Response]
    \cup [kind : {"short error", "long error"}, id : {id}, response : {Junk}]

\* A request is sent and the tracker's answer arrives sooner or later, or is lost.
Send(rest, answers) ==
    \E new \in {{a} : a \in answers} \cup {{}} :
        /\ net' = rest \cup new
        /\ lost' = IF new = {} THEN lost + 1 ELSE lost
        /\ lost' <= MaxLost

\* recv takes a datagram of this tracker; one that is repeated is still to come.
Take(m, rest) ==
    /\ m \in net /\ rest \in {net, net \ {m}}
    /\ repeated' = IF rest = net THEN repeated + 1 ELSE repeated
    /\ repeated' <= MaxRepeated

AskTrackers(possible_urls) ==
    /\ asking = "no" /\ asking' = "next" /\ urls' = possible_urls
    /\ UNCHANGED <<transaction_id, net, answer, lost, repeated>>

\* (mutant of TryNext) the same URL is asked again.
TrySame ==
    /\ asking' = "next" /\ transaction_id' = 0 /\ net' = {}
    /\ UNCHANGED <<urls, answer, lost, repeated>>

\* Err(..): the next URL, with a socket or connection of its own.
TryNext ==
    /\ urls' = Tail(urls) /\ asking' = "next" /\ transaction_id' = 0 /\ net' = {}
    /\ UNCHANGED <<answer, lost, repeated>>

\* An unsupported protocol, a host that is not found, a URL without a port; or
\* the socket reports that the datagram was refused.
UrlFails ==
    /\ asking \in {"next", "connect", "announce"} /\ urls # <<>>
    /\ Scheme[Head(urls)] # "bad"
    /\ TryNext

NoTrackerLeft ==
    /\ asking = "next" /\ urls = <<>> /\ asking' = "failed"
    /\ UNCHANGED <<urls, transaction_id, net, answer, lost, repeated>>

\* Ok(response): the socket and the other locals are dropped.
Accept(m) ==
    /\ asking' = "done" /\ answer' = m.response
    /\ urls' = <<>> /\ transaction_id' = 0 /\ net' = {}
    /\ lost' = 0 /\ repeated' = 0

AskHttp ==
    /\ asking = "next" /\ urls # <<>> /\ Scheme[Head(urls)] = "http"
    /\ asking' = "http" /\ Send({}, Answers("response", 0))
    /\ UNCHANGED <<urls, transaction_id, answer, repeated>>
HttpAnswers ==
    /\ asking = "http"
    /\ \E m \in net :
           IF m.kind = "response"
           THEN Accept(m) ELSE TryNext

SendConnect ==
    /\ asking = "next" /\ urls # <<>> /\ Scheme[Head(urls)] = "udp"
    /\ asking' = "connect" /\ transaction_id' = transaction_id + 1
    /\ Send({}, Answers("connect", transaction_id'))
    /\ UNCHANGED <<urls, answer, repeated>>

\* The three assertions on the answer to a connect; those on the answer to an
\* announce, which leave its action out: a long error passes for a response.
ConnectAccepted(m) == m.kind = "connect" /\ m.id = transaction_id
AnnounceAccepted(m) ==
    m.kind \in {"response", "long error"} /\ m.id = transaction_id

SendAnnounce ==
    /\ asking = "connect"
    /\ \E m \in net, rest \in SUBSET net :
          /\ Take(m, rest) /\ ConnectAccepted(m)
          /\ transaction_id' = transaction_id + 1
          /\ Send(rest, Answers("response", transaction_id'))
    /\ asking' = "announce"
    /\ UNCHANGED <<urls, answer>>
AnnounceAnswers ==
    /\ asking = "announce"
    /\ \E m \in net : AnnounceAccepted(m) /\ Accept(m)

\* An assertion or an unwrap fails: a panic, not an Err.
AssertionFails ==
    /\ \/ asking = "connect" /\ \E m \in net : ~ConnectAccepted(m)
       \/ asking = "announce" /\ \E m \in net : ~AnnounceAccepted(m)
       \/ asking = "next" /\ urls # <<>> /\ Scheme[Head(urls)] = "bad"
    /\ asking' = "panicked"
    /\ UNCHANGED <<urls, transaction_id, net, answer, lost, repeated>>

TrackerNext ==
    \/ UrlFails \/ NoTrackerLeft \/ AskHttp \/ HttpAnswers \/ SendConnect
    \/ SendAnnounce \/ AnnounceAnswers \/ AssertionFails
=============================================================================
