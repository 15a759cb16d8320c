----------------------------- MODULE ChatServer -----------------------------
(* The server of the example chat system: join() and post(), asynchronous     *)
(* functions over one shared list of users, each call with the context of     *)
(* ServerCallContext. An `await` is where other calls and events come in      *)
(* between; what stands between two awaits is one action. Beside the joins    *)
(* there may be calls of other services, whose methods do with their context  *)
(* whatever its interface allows.                                             *)
EXTENDS ServerCallContext, FiniteSets

CONSTANTS
    Others,       \* the calls that are not join()
    MaxTime,      \* bound: the clock, in milliseconds
    MaxPosts,     \* bound: posts per user
    SameTime      \* may two users join within one millisecond?

ASSUME ChatAssumption ==
    /\ IsFiniteSet(Calls) /\ Others \subseteq Calls
    /\ Callbacks = {"removeUser", "resolve"}   \* of a join; any two, of others
    /\ MaxTime \in Nat /\ MaxPosts \in Nat /\ SameTime \in BOOLEAN

VARIABLES
    now,        \* Date.now()
    users,      \* the users of the chat: [token, call], in order
    at,         \* where join() of each call is
    sending,    \* the streams whose send() each call still awaits
    token,      \* the token of each call
    posts,      \* how often each call's user has posted
    got         \* history: the events written to each call's stream

Joins == Calls \ Others

joinVars == <<now, users, at, sending, token, posts, got>>
chatVars == <<contextVars, joinVars>>

ChatInit ==
    /\ ContextInit
    /\ now = 1
    /\ users = <<>>
    /\ at = [c \in Calls |-> "idle"]
    /\ sending = [c \in Calls |-> {}]
    /\ token = [c \in Calls |-> 0]
    /\ posts = [c \in Calls |-> 0]
    /\ got = [c \in Calls |-> <<>>]

\* The streams of a list of users.
Streams(list) == {list[i].call : i \in DOMAIN list}

\* Mutant: the caller is left out.
BroadcastToOthers(c, kind, list) ==
    /\ sending' = [sending EXCEPT ![c] = Streams(list) \ {c}]
    /\ got' = [d \in Calls |-> IF d \in Streams(list) \ {c}
                               THEN Append(got[d], [kind |-> kind, of |-> c])
                               ELSE got[d]]

\* broadcast: send the event to the stream of every user on the list now, and
\* await them all.
Broadcast(c, kind, list) ==
    /\ sending' = [sending EXCEPT ![c] = Streams(list)]
    /\ got' = [d \in Calls |-> IF d \in Streams(list)
                               THEN Append(got[d], [kind |-> kind, of |-> c])
                               ELSE got[d]]

\* join() up to its first await: addUser makes a token of the time, registers
\* the callback that removes the user, and adds the user; the new user is told
\* too.
Join(c) ==
    /\ Quiet
    /\ at[c] = "idle"
    /\ SameTime \/ \A d \in Calls : token[d] # now
    /\ token' = [token EXCEPT ![c] = now]
    /\ OnCancel(c, "removeUser")
    /\ users' = Append(users, [token |-> now, call |-> c])
    /\ Broadcast(c, "joined", users')
    /\ at' = [at EXCEPT ![c] = "joining"]
    /\ UNCHANGED <<now, posts>>

\* `await this.broadcast(...)`: Promise.all over the sends.
AllSent(c) == sending[c] = {}

\* join() after the broadcast: the promise that the client's close resolves.
AwaitClose(c) ==
    /\ Quiet
    /\ at[c] = "joining" /\ AllSent(c)
    /\ OnCancel(c, "resolve")
    /\ at' = [at EXCEPT ![c] = "open"]
    /\ UNCHANGED <<now, users, sending, token, posts, got>>

\* join() after the client's close.
Leave(c) ==
    /\ Quiet
    /\ at[c] = "open" /\ fired[c]["resolve"] > 0
    /\ Broadcast(c, "left", users)
    /\ at' = [at EXCEPT ![c] = "leaving"]
    /\ UNCHANGED <<now, users, token, posts>> /\ UNCHANGED contextVars

\* join() ends, and with it the call.
JoinEnds(c) ==
    /\ Quiet
    /\ at[c] = "leaving" /\ AllSent(c)
    /\ at' = [at EXCEPT ![c] = "done"]
    /\ UNCHANGED <<now, users, sending, token, posts, got>>
    /\ UNCHANGED contextVars

\* The users with a token, by their place on the list.
Holders(t) == {i \in DOMAIN users : users[i].token = t}

\* findIndex, find: the first of them.
First(is) == CHOOSE i \in is : \A j \in is : i <= j

\* post() with the token of `c`; one that no user has is PERMISSION_DENIED,
\* and changes nothing. (Its own await and reply change nothing either.)
Post(c) ==
    /\ Quiet
    /\ at[c] # "idle" /\ posts[c] < MaxPosts
    /\ Holders(token[c]) # {}
    /\ posts' = [posts EXCEPT ![c] = @ + 1]
    /\ LET user == users[First(Holders(token[c]))] IN
       got' = [d \in Calls |-> IF d \in Streams(users)
                               THEN Append(got[d], [kind |-> "message", of |-> user.call])
                               ELSE got[d]]
    /\ UNCHANGED <<now, users, at, sending, token>> /\ UNCHANGED contextVars

\* The send() of a call to a stream is acknowledged.
SendDone(c, d) ==
    /\ Quiet
    /\ d \in sending[c]
    /\ sending' = [sending EXCEPT ![c] = @ \ {d}]
    /\ UNCHANGED <<now, users, at, token, posts, got>> /\ UNCHANGED contextVars

\* The client of a call that is under way closes it: 'cancelled'.
ClientCloses(c) ==
    /\ at[c] \in {"joining", "open"}
    /\ NotifyCancelled(c)
    /\ UNCHANGED joinVars

\* Mutants of the removal: the user stays; the last user is popped.
KeepUser(c) == users
PopUser(c) == IF Holders(token[c]) = {} THEN users ELSE Front(users)

\* What the callback of addUser leaves of the list.
WithoutUser(c) ==
    IF Holders(token[c]) = {} THEN users
    ELSE RemoveAt(users, First(Holders(token[c])))

\* A callback of the call is called: the one of addUser takes the user with
\* the token of the call off the list.
CallCallback ==
    /\ CallNextListener
    /\ users' = IF firing.call \in Joins /\ NextListener = "removeUser"
                THEN WithoutUser(firing.call) ELSE users
    /\ UNCHANGED <<now, at, sending, token, posts, got>>

\* notifyCancelled goes on.
ContinueNotify ==
    /\ CallbackReturns \/ AllNotified
    /\ UNCHANGED joinVars

Tick ==
    /\ now < MaxTime
    /\ now' = now + 1
    /\ UNCHANGED <<users, at, sending, token, posts, got>> /\ UNCHANGED contextVars

\* A call of another service, and its callbacks.
OtherCall(c) ==
    /\ \/ NotifyCancelled(c)
       \/ firing.call = c /\ CallbackThrows
       \/ \E l \in Callbacks :
             \/ MayCall(c, "add") /\ OnCancel(c, l)
             \/ MayCall(c, "remove") /\ RemoveOnCancel(c, l)
    /\ UNCHANGED joinVars

ChatNext ==
    \/ CallCallback \/ ContinueNotify \/ Tick
    \/ \E c \in Others : OtherCall(c)
    \/ \E c \in Joins :
          \/ Join(c) \/ AwaitClose(c) \/ Leave(c) \/ JoinEnds(c) \/ Post(c)
          \/ ClientCloses(c)
          \/ \E d \in Joins : SendDone(c, d)

ChatSpec == ChatInit /\ [][ChatNext]_chatVars

\* Synchronous code and continuations run; every send is acknowledged.
FairChatSpec ==
    /\ ChatSpec
    /\ WF_chatVars(CallCallback \/ ContinueNotify)
    /\ \A c \in Joins :
         /\ WF_chatVars(AwaitClose(c) \/ Leave(c) \/ JoinEnds(c))
         /\ \A d \in Joins : WF_chatVars(SendDone(c, d))

-----------------------------------------------------------------------------
(* "as soon as the user closes the call, we remove him from the chat"        *)
(* (addUser): the users are those whose call is open, each once - the right  *)
(* one has been removed.                                                     *)
UsersAreOpen ==
    Quiet =>
        /\ Streams(users) = {c \in Joins : at[c] # "idle" /\ ~cancelled[c]}
        /\ Len(users) = Cardinality(Streams(users))

(* Nothing is written to the stream of a call that the client has closed.    *)
NothingAfterClose ==
    [][\A c \in Joins : got'[c] # got[c] => ~cancelled[c]]_chatVars

\* A user is told of his own joining before of anything else.
OwnJoinFirst ==
    \A c \in Calls : got[c] # <<>> => got[c][1] = [kind |-> "joined", of |-> c]

\* Once the chat has been told that a user left, it hears nothing more of him:
\* his token is not good for another post.
LeavingIsLast ==
    \A c \in Calls : \A i, j \in DOMAIN got[c] :
        got[c][i].kind = "left" /\ i < j => got[c][j].of # got[c][i].of

(* Although broadcasts of several calls are under way between the awaits, a  *)
(* user hears of his own joining before of anything else, and of nobody who  *)
(* has left before.                                                          *)
EventsInOrder == OwnJoinFirst /\ LeavingIsLast

(* "keep this call open until the client closes it" (join): when the client  *)
(* has closed the call, it comes to its end.                                 *)
JoinEndsAfterClose == \A c \in Joins : cancelled[c] ~> at[c] = "done"
=============================================================================
