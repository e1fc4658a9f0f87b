# A TLA+ model of trabSD

The repository holds three course works on distributed systems:

- `trab1`: RPyC exercises in Python, a stateless service and clients that time it;
- `trab2`: a Raft peer in Go (`raft/raft.go`) on a simulated RPC network
  (`labrpc/labrpc.go`), with the tester of the MIT 6.824 labs (`config.go`, `test_test.go`);
- `trab3`: a wallet API in Node (Express, Sequelize, Postgres) and its React client.

`trab2` and `trab3` are modelled, model-checked and proved about: the Raft peer, alone with its
channels and in a cluster; the calls that carry its messages through crashes; the wallet
server; and the page of the client that calls it. What is left out is at the end.

## 1. Inventory

| part | state it keeps | operations | talks to |
|---|---|---|---|
| Raft peer (`raft.go`) | term, vote, log (persisted); state, votes, commit and replication indices; three buffered channels | `RequestVote`, `AppendEntries` (handlers); `sendRequestVote`, `sendAppendEntries` (callers); `stateLoop` with `doAsFollower`, `doAsCandidate`, `doAsLeader`; `Start`, `Make`, `GetState`, `Kill` | other peers through labrpc, the persister, `applyCh` |
| Persister (`persister.go`) | the saved Raft state, a snapshot nobody writes | `Copy`, `SaveRaftState`, `ReadRaftState` | the peer, the tester |
| labrpc (`labrpc.go`) | ends, connections, enabled flags, servers | `Call`, `ProcessReq`, `AddServer`, `DeleteServer`, `Connect`, `Enable` | peers, the tester |
| Tester (`config.go`) | the peers, their persisters, what each has applied | `crash1`, `start1`, `connect`, `disconnect`, `one`, `wait`, the checks | labrpc, peers |
| Wallet server (`trab3/servidor/src`) | rows of Carteira, Categoria, Despesa, Receita; the `observers` array of each service singleton | create, edit and delete of expenses, incomes and categories; the balance update that observers do | Postgres, the client |
| Wallet client (`trab3/cliente/src`) | React state: views copied from the server's answers, forms, modals, cached limits | fetch on mount and after a delete; create, edit, delete, each with a `fetch` and what its answer does | the wallet server |
| trab1 | none | a sum of a vector, a constant answer | its clients |

What makes each correct, and what is hard about it:

- **Raft peer.** At most one leader a term, elected by a majority; a vote is cast once a
  term and survives a crash; logs agree and converge; what is applied was agreed on.
  Hard: every step of a peer is a short critical section of `rf.mu`, and much of what a
  step relies on was read in an earlier one (the state in `stateLoop` and `Start`, the
  term in `sendVoteRequests`, `nextIndex` in `sendEntriesToPeer`); calls are lost, late and
  overtaken; channel tokens outlive the event they stand for; sends on full channels block
  with `rf.mu` held.
- **labrpc and the tester.** A call takes effect at most once, and always returns; a server
  that was replaced cannot answer for its successor, nor overwrite what it saved. Hard:
  `ProcessReq` polls for the death of the server it called.
- **Wallet server.** The balance is what the incomes and expenses add up to; success is
  answered when the row was written. Hard: a request runs in steps, one per `await`, that
  interleave with all others; the balance is read, then written absolutely; observers pile
  up, so that one request updates it often; not all that is started is awaited.
- **Wallet client.** It shows what the server last said, and stores what was typed once.
  Hard: answers arrive out of order or not at all, while the user types and clicks on; the
  chart is made of two answers that are not of the same moment.

`PROJECT.json` lists the hazards one by one, at their lines, with the properties aimed at
each.

## 2. Modules

| module | what it is |
|---|---|
| `Raft` | the peer, the cluster and the calls between peers, one action per critical section |
| `TermVote` | abstract specification: a term and a vote per server |
| `RaftProperties`, `MCRaft` | the safety, refinement and liveness properties; instances for TLC |
| `RaftProofs` | theorems about `Raft` and their proofs |
| `PeerChannels` | one peer, its three channels and `rf.mu`: who waits for whom; its properties |
| `PeerChannelsProofs` | theorems about `PeerChannels` and their proofs |
| `Labrpc` | the calls to one server through its incarnations: `Call`, `ProcessReq`, the handlers, `crash1` and `start1`; its properties |
| `Rpc` | abstract specification: the outcome and the durable effect of each call |
| `MCLabrpc`, `LabrpcProofs` | instances for TLC; theorems about `Labrpc` and their proofs |
| `Linhas` | the rows of the wallet's tables, what a request asks for, and what it makes of them |
| `Tabelas` | abstract specification of the wallet server: which rows a request writes, and what an answer says about them |
| `Carteira` | the wallet server, one action per awaited statement; it implements `Tabelas`; its properties |
| `MCCarteira`, `CarteiraProofs` | an instance for TLC; theorems about `Carteira` and their proofs |
| `Somas`, `SaldoProofs` | lemmas about sums over finite sets; the theorem about balances and its proof |
| `Cliente` | the page of one wallet against a server that is `Tabelas`; its properties |
| `MCCliente`, `ClienteProofs` | instances for TLC; theorems about `Cliente` and their proofs |
| `ClientePromises` | the theorems about stale views and repeated submits, and their proofs |

Two abstract specifications carry the composition. `Labrpc` implements `Rpc`, and the calls of
`Raft` assume no more than `Rpc`; `Carteira` implements `Tabelas`, and the server that `Cliente`
talks to is an instance of `Tabelas`. So what is shown of the client holds against the server
as it is, however its statements interleave.

### How `Raft` corresponds to `raft.go`

The variables of `struct Raft` keep their names. Server identities are model values and
`Nil` is -1. Indices into `log` are those of the code plus one. The other variables are:

| variable | stands for |
|---|---|
| `disk` | the state in the persister |
| `requestVoteReplied`, `winner`, `appendEntriesRec` | how many tokens each channel holds |
| `pc` | where `stateLoop` is: before it reads the state, in the select of `doAsFollower`, before the lock of `doAsCandidate`, in its select, or dead after a panic |
| `asking`, `sending`, `starting` | goroutines (`sendVoteRequests`, `sendEntriesToPeer`, a caller in `Start`) that have been started and not yet locked `rf.mu` |
| `life` | how often the server was restarted |
| `calls` | requests and replies in flight, a bag |

Each action is everything that one holder of `rf.mu` does, the `persist` that it defers
included. A select that takes a token and then locks (`becomeLeader`) is one step, since
nothing reads the token in between. `Make` is one step, since `readPersist` ends long
before the first timer of `stateLoop` (100 ms or more) can fire. A handler that would block
on a full channel is not enabled, as if its request were still on its way; every
behaviour up to the block is there, so safety is not affected, and the block itself is the
subject of `PeerChannels`. `GetState` only reads, and `Kill` does nothing.

A call that fails, for whatever reason (lost request, lost reply, a server that is gone),
is `CallFails`. A restart (`crash1`, `start1`) takes the server's new memory from `disk`,
and everything else from `Make`. The old incarnation has no end left to send on and a
persister nobody reads, so it is dropped; its calls are still in flight, their answers reach
nobody. A crash in the middle of a handler is a restart before it and a failed call, because
`ProcessReq` withholds the answer of a server that was deleted.

`updateIndexesAndCommit` and `handleLogInconsistency` are translated although the model,
like the code, cannot reach them: `sendAppendEntries` returns unless the reply's term is
newer, and then makes the server a follower and returns because it is not the leader. A
leader therefore never moves `nextIndex`, and a log that does not fit is never repaired.

The index panic stops only the server it happens in (`Panic`); in the tests all servers
share a process, which it ends. `nextIndex` of a server that has never led is nil in the
code and all ones here; nothing reads it.

### How `PeerChannels` corresponds to `raft.go`

One peer, seen from its channels. `chan` counts the tokens, up to `Size`
(`DefaultChannelBufferSize`). A critical section that sends nothing is one step, enabled while
`rf.mu` is free; one that sends on a full channel becomes `holder`, and nobody gets the lock
until `Unblock`. `loop` is where `stateLoop` is, `expired` being the end of `doAsCandidate` by its
timer. A timer may fire at any moment. Terms and logs are reduced to what they make a handler
do: follow a higher term or not, be granted a vote or not. A vote
granted in the peer's own term leaves its state alone; only a candidate in its election, which
has voted for itself, can grant one in a higher term alone. `AppendEntries` sends its token
before it looks at the term, so a handler that waits has not followed it yet. `requested`
and `called` are history variables that count vote requests and token-leaving calls up to
`Counted`; nothing depends on them.

### How `Labrpc` corresponds to `labrpc.go` and `config.go`

One server is looked at, and all calls made to it. `server` is the entry of `rn.servers`,
and the incarnation number in it stands for the `*Server` object and for the Persister that
belongs to it. A call's `stage` is where the goroutine of `ProcessReq` is (the last check,
`CheckServer`, is a step of its own, since it takes `rn.mu` anew), and `handler` is where
the goroutine that it starts is: the two run independently, so a handler may save into the
Persister of an incarnation that is long gone. What a Persister holds is the set of calls
whose effect was saved in it, as raft.go's handlers save before they return. Drops, delays and
reordering are allowed at any time, which covers every setting of `Reliable`, `LongDelays`
and `LongReordering`. `crash1` and `start1` are four steps: the server off the network, the
copy of its Persister, `Make` on the copy, the new server on the network; the further copies
in `config.go` are of an object that nobody else holds.

`Raft` uses the calls as `Rpc` describes them: one that fails (`CallFails`) may have had its
effect, or has it later; the answer that reaches a caller is of a call whose effect the
server will not lose. `Raft` needs no step between the crash and the restart of a server,
because nothing an old incarnation does afterwards is durable.

### How `Carteira` corresponds to `trab3/servidor/src`

A handler runs alone until it awaits, so an action is an awaited statement with what follows
it up to the next one. What each method of the services awaits, and in which order, is
listed in `Receitas`, `Despesas` and `Categorias`; the statements themselves, which the
services share, are the actions. `requests` holds, per request, its body, the next statement,
the value that an edit or a delete found (`old`), how many rows it wrote (`made`) and the
answer. `rows` is the tables with the columns the services compute with (`valor` is the
limit of a category); dates and texts are left out. `observers` counts the observers of each
service, which all do the same, and `updates` is the calls of `CarteiraService.update` that
they started: each reads a balance, then writes it. Queries change nothing.

A create that lacks a field is refused by the controller (`Refused`). An edit is not looked at:
a column that its body does not have is undefined, and `Model.update` of Sequelize 6 leaves
that column alone, updates the others and succeeds; the page itself edits a category this way,
by its limit only. Only a null in a column that must have a value is refused by the table, and
an edit without any column updates nothing, which the service takes for a missing row
(`Editable`, `EditedRow`). In a body, `campos` is the columns that are there, and `valido` says
that a create has all of its fields, or that no column of an edit is null. An edit of an income
or expense without `valor` is answered with success, and the difference that it applies is
`NaN`, which the balance is from then on. Any awaited statement may be refused (`Reject`), whether it finds
nothing or the database fails; a refused statement has no effect. The destroys of
`deleteDespesa` and `deleteCategoria` are not awaited: they come after the answer, or never.
`createDespesa` returns the errors it catches, and its controller answers success.
`Restart` ends all that runs and empties `observers`, which are in memory. Postgres keeps an
expense's category valid, and empties it when the category is destroyed (`ForeignKeysHold`,
`Without`).

`excess` is a history variable: by wallet, what was booked beyond what its rows account for.
Two errors add up in it. A notification reaches every observer of its service, and all but
one of them book its amount once too often (`Notify`); an instalment is stored with its share
and debited with the whole value (`Insert`). After an accident, which `Disturb` or a `NaN` booked
by `Notify` marks, `excess` is `NaN` for good. Nothing in the model depends on it.

`Tabelas` is what of this a caller may rely on: a request writes only the rows its body says,
an expense once an instalment and anything else once; success means that this was done, with
two exceptions that `Earned` names, which are the two defects above.

### How `Cliente` corresponds to `trab3/cliente/src`

The page is `CarteiraPage`, of which `Mounted` names the components that are looked at.

| variable | stands for |
|---|---|
| `screen` | by view, the React state that a fetch sets, and the number of that fetch |
| `fetches` | the fetches under way with the answers they have so far; the chart asks twice |
| `newest` | by view, the number of its last fetch |
| `mine` | by request of this page, what the handler that waits for its answer has heard, the limit it will put back (`cached`), and whether the same was being asked already (`again`) |
| `modal` | the row `ActivityList` asks about, and what for |
| `form` | the forms of `WalletResume` and `CategoryButton`, each an amount (or a name) or nothing |
| `typed`, `touched` | history: what was typed; the views that the server would answer otherwise by now |
| `rows`, `used`, `calls` | the server, `Tabelas` |

`ServerWrites` and `ServerAnswers` are its steps, `OthersAsk` a request of another page. A
handler of the page runs alone from one `await` to the next, so a click is one action that
sends the request (`Send`), and what follows the answer is another (`Answered`: the reset of
the form, the cached limit put back, the modal closed, the lists fetched anew; `Failed`: the
error is logged, or there is none because the answer was lost). `handleEditClick` and
`handleDeleteClick` stand for the functions of both kinds of rows. The effects run once, or
twice under `React.StrictMode` (`Mounts`), which `index.js` turns on and which doubles in a development
build.

The balance that the page shows is fetched with the rest; how the server comes by it is
`Carteira`'s subject, and here it is any amount.

### Bounds

| constant | bounds | why the values are enough |
|---|---|---|
| `MaxTerm[s]` | the last term that s enters by a timeout | two rivals, each with its own terms, are what elections need to conflict; the run with restarts has one that opens two elections |
| `MaxLog` | no `Start` begins on a longer log | one entry to append, one that conflicts with it |
| `MaxCalls` | calls in flight | two suffice to overtake one another; more only delay |
| `MaxPending` | goroutines of one kind waiting for `rf.mu` | one that is late is what the hazards need |
| `MaxRestarts` | restarts of each server (`Raft`), of the process (`Carteira`) | one, at any point |
| `ChanCap` (`Raft`) | the buffer of the channels (20 in the code) | one token that outlives its event |
| `Size` (`PeerChannels`) | the same buffer | 20, as in the code, for the run that fills it; 2 for the one that asks what goes on below |
| `Answers`, `Counted` (`PeerChannels`) | answers under way; where the histories stop | more than the buffer holds |
| `MaxMade` (`Labrpc`) | incarnations of the server | two: a handler of the first is still running when the second starts; the theorems hold for any number |
| `Request` (`Carteira`, `Cliente`) | requests | two, of any kind, interleave at every await; what a third could add is one more observer or one more overlap, of which two requests have one each; the theorems hold for any number |
| `Item` (`Carteira`, `Cliente`) | ids of rows | those stored at the start and two for new rows |
| `Amount` (`Cliente`) | what is typed, each amount once | one: what is stored twice is seen by the requests, and not by the amount |
| `MaxParcelas` (`Cliente`) | instalments asked for | two, so that a create may be stored in part |
| `Mounted`, `Mounts` (`Cliente`) | components looked at, runs of their effects | components share no state but the server, which `Others` stands for; two runs of each effect are checked for the forms of `CategoryButton`, and proved about for all |

They are guards on the steps that start something new (an election, a call, a goroutine, a
click), never on what answers it. Because elections stop at `MaxTerm` and requests run out, the
models can come to rest, which is why the runs do not check for deadlock. The theorems hold
for all values.

## 3. What is checked

| run | instance | shows |
|---|---|---|
| `raft_rivals` | 3 servers, one with a longer log, two that open elections | `TypeOK`, `VoteDurable`; it goes through the index panic of `sendEntriesToPeer` |
| `raft_crash` | 2 servers that restart once each, commands appended, fair | `PersistedIsCurrent`, `VoteDurable`, `LogTermsOrdered`, `NothingCommitted`; terms and votes implement `TermVote`; `Converges`: a leader that stays gives its log to a follower whose log fits |
| `canais_rodam` | channels for 2 tokens, calls of every kind, fair | `RoomEnough`: nobody waits with `rf.mu` in hand before a channel's worth of calls or vote requests; `KeepsRunning`: `stateLoop` goes round for ever unless a channel stays full |
| `labrpc_durable` | 3 calls on 2 ends, 2 incarnations, fair | `PositiveReplyDurable`, the reason `ProcessReq` gives for its last check; `Labrpc` implements `Rpc`; `CallReturns`: "Call() is guaranteed to return", and with a handler that does not, returns once its server was replaced |
| `carteira_exact` | any two of eighteen requests, three of them edits of some columns only, three wallets, failures, a restart | `Exact`, `ReceitaDeletada`; `Carteira` implements `Tabelas` |
| `cliente_listas` | `ActivityList`, another page that edits an income, fair | `Fresh`: a list that its last fetch brought is the server's unless that changed since; `DeletedVanishes`: an income deleted with success leaves the list in the end, unless the last fetch fails or an older one comes after it |
| `cliente_formularios` | `WalletResume`, one amount typed and sent any number of times | `OncePerFill`: what was typed once is stored twice only after a double submit or a failure that was none |
| `cliente_grafico` | the chart and `CategoryButton`, others that create and delete categories and expenses | `ChartComplete`: the two answers are put together without losing an expense of a category that the wallet still has |

`Exact` says what a balance is worth: the balance of a wallet at rest is what its incomes and
expenses add up to, and what repeated observers and instalments booked too much (`excess`),
until the first accident at that wallet. Accidents are an edit without a value, a value or a
balance that changed between its read and its use (two edits or deletes of one row, two
updates at once), a request or an update that failed half way, and the end of the process
while something ran. So every request but these is accounted for to the cent, however many
observers there are, and what happens to one wallet does not touch another. That this list is
complete is what the run shows on its instance, and `ExactHolds` for every one. It also means
that the hazards on the list are not caught by `Exact`: the code has those defects, the model
has them with it, and `PROJECT.json` says so at each.

`ChartComplete` holds because of the order of the two reads: expenses first. The other way
round (the mutant), an expense of a category created in between would be dropped.

Four runs end in a counterexample. Each states something the repository says of the
program, and each counterexample is a behaviour of the code:

| run | expectation | what happens |
|---|---|---|
| `raft_election_safety` | `config.go:273`, "term %d has %d (>1) leaders" | a vote asked for in an earlier term is counted in a later one, and both rivals lead it |
| `raft_agreement` | `config.go:422`, "failed to reach agreement" | replies of the leader's own term are dropped, so nothing is ever committed |
| `canal_cheio` | `raft.go:337`, "O tempo de eleição expirou, o que iniciará uma nova eleição" | votes past the majority fill `winner`, the next one waits with `rf.mu` in hand, and no election starts again |
| `cliente_limite` | `CategoryButton.js:45`, "Limite da categoria alterado com sucesso." | the form goes back to the limit fetched before the change, and saving again undoes it |

### Fairness

`FairSpec` of `Raft` assumes weak fairness of every goroutine (`stateLoop`, `sendVoteRequests`,
`sendEntriesToPeer`, the caller in `Start`): the Go scheduler runs what can run, and a
select with a ready case or an expired timer takes one. It assumes weak fairness of the end
of calls, since labrpc documents that "Call() is guaranteed to return", and strong fairness
of delivery from each server to each other: a network that loses one call in ten, as
`ProcessReq` does, does not lose all of them. Nothing is assumed about who wins a race,
about restarts, or about commands being submitted.

`FairSpec` of `PeerChannels` assumes strong fairness of `stateLoop`: a Go `Mutex` hands itself to
the goroutine that has waited for a millisecond, so a lock that is free again and again is
had in the end. A send goes through once there is room (`Unblock`, weak). Handlers are free.

`FairSpec` of `Labrpc` assumes weak fairness of each `ProcessReq`, which polls, and of each
handler, which may hang instead of ending. Callers and the tester are free.

`FairSpec` of `Cliente` assumes that a browser lets a fetch end, with an answer or an error. The
user, the server and the other pages are free: `DeletedVanishes` starts when an answer is there.

## 4. What is proved

All theorems hold for every value of the constants that satisfies the named assumptions, which
TLC evaluates in the runs.

| module | theorem | statement |
|---|---|---|
| `RaftProofs` | `TypeCorrect` | `Spec => []TypeOK` |
| | `DiskIsCurrent` | `Spec => []PersistedIsCurrent` |
| | `NeverCommits` | `Spec => []NothingCommitted` |
| | `ImplementsTermVote` | `Spec => TermVoteSpec` |
| | `VotesAreDurable` | `Spec => []VoteDurable` |
| | `LogTermsStayOrdered` | `Spec => []LogTermsOrdered` |
| `PeerChannelsProofs` | `TypeCorrect` | `Spec => []TypeOK` |
| | `NoHangBeforeFull` | `Spec => []RoomEnough` |
| `LabrpcProofs` | `TypeCorrect` | `Spec => []TypeOK` |
| | `SuccessIsDurable` | `Spec => []PositiveReplyDurable` |
| | `ImplementsRpc` | `Spec => RpcSpec` |
| `CarteiraProofs` | `TypeCorrect` | `Spec => []TypeOK` |
| | `ReceitaDeletadaHolds` | `Spec => []ReceitaDeletada` |
| | `ImplementsTabelas` | `Spec => TabelasSpec` |
| `SaldoProofs` | `ExactHolds` | `Spec => []Exact` |
| `ClienteProofs` | `TypeCorrect` | `Spec => []TypeOK` |
| | `ChartCompleteHolds` | `Spec => []ChartComplete` |
| `ClientePromises` | `FreshHolds` | `Spec => []Fresh` |
| | `OncePerFillHolds` | `Spec => []OncePerFill` |

**Raft.** The saved states are any that satisfy `SavedAssumption` (Make's own entry first, terms
in order and not past the current one). `Base` is the conjunction of the type invariant,
`PersistedIsCurrent`, `NothingCommitted` and "no log is empty", and is inductive. The parts need
each other: the types of `GetLastEntryTerm` and of the arguments of a call rest on logs not being
empty; a restart keeps that only because the disk holds the log in memory; and
`AppendReturned` keeps `nextIndex` positive because what would change it is unreachable.
`PersistedIsCurrent` makes a restart a stutter of term, vote and log, so crashes need no
case of their own in the rest. `ImplementsTermVote` then needs one fact per action: a
term that changes grows, a vote that changes in a term was `Nil`. `VotesAreDurable` follows,
because that is what keeps a granted vote in force once it has been sent.
`LogTermsStayOrdered` is inductive together with `Base`: the prefix that `AppendEntries`
keeps ends in an entry of `prevLogTerm`, and the entries it appends begin no lower.

**PeerChannels.** Every token is the work of one vote request or of one call: those in a
channel, the one that waits to be sent, and those that answers may still bring are no more than
were counted (`TokensCounted`). A channel that is full, with one more token waiting, has
therefore cost more than `Size` of them. Receiving only makes room.

**Labrpc.** The server on the network is always the latest incarnation, and is there only
before its Persister is copied (`OnNetwork`: `crash1` deletes first, `start1` adds last). A
handler that is done has its effect in the Persister of the incarnation it ran on
(`HandlersOK`). So a reply that passes the last check (the incarnation read before is the
one on the network) has a durable effect, and from then on effects only accumulate
(`DurableGrows`, the one lemma about restarts). The refinement is one step of `Rpc` an action:
a save in the latest Persister is the call's taking effect, the ends of `ProcessReq` are its
returns, and the tester's steps change nothing.

**Carteira.** The programs are data, so the proof first takes each apart once (`Shape`: where it
writes, where it answers, after which statement the row is known to be there). The invariant
then says of each request what it has written and answered from where it stands: it has not
answered before its place to answer, nor written before its place to write, unless it is
createDespesa's loop; one past its write has written. An income that was destroyed does not
come back because ids are not used again. The refinement maps a request to a call of `Tabelas`:
statements that write are its writes, `Answer` and `Reject` its answers, and balance updates,
which are below it, change nothing.

**Balances.** `Exact` speaks of wallets at rest, so the invariant, `SaldoInv`, has to say what the
balance is short of while requests run. For every wallet whose `excess` is a number it asks that
its balance and all amounts on their way to it are numbers (`Numbers`), and its equation,
`Booked`, is:

    Worth + Way + Dues = Balance + excess

`Worth` is the balance (0 before the wallet exists), `Way` what the updates in the bag will add, each
as often as it is in there, and `Dues` what the requests of the wallet still owe it. A request's
`Stage` is read off the place it stands at: "found" once it knows the value it will replace,
"pending" between its write and its notification, when it owes its amount, and "late" between
its notification and its destroy (`deleteDespesa` notifies first), when the balance is ahead of
the rows by that amount. Each action then moves an amount from one term to another: a write from
`Balance` to `Dues`, provided that the value found is still the row's (`Stale`), an instalment with
the rest of the value into `excess`; a notification from `Dues` to `Way`, n times for n observers, with
n - 1 of them into `excess`; a write of a balance from `Way` to `Worth`, provided that the balance it
read is still there. Where a proviso fails, `excess` becomes `NaN` and nothing is left to show. One
lemma (`RequestStep`) reduces all steps of requests to this balance of their own wallet
(`Balanced`). A wallet for which nothing runs has nothing due and nothing on its way, which
makes the equation `Exact` (`RestingIs`), and which is also why a restart leaves the wallets alone
that it does not cut off.

The sums are those of `MapThenSumSet`, a recursive function. The library's induction theorems
cannot be instantiated, so `Somas` argues by a smallest counterexample among the subsets of a
finite set, from the well-foundedness of inclusion (`SmallestSubset`). Tables are finite, which is
part of `StoredAssumption`.

**Cliente.** The invariant is `RowsInv` (an id in a row was used), `CallsInv` (what was heard is what
was answered), `PageInv` (fetches are numbered, and bring what they asked for) and `FormInv`. For
the chart, `PageInv` says of a fetch that has both answers that the categories in the second
cover those that an expense of the first names and the wallet still has (`Covers`). It is kept
because a category made later has an id that was not used then, while the category of every
expense was: rows are destroyed, and others made, but an id does not come back.

**What the page promises.** `FreshInv` extends `Fresh` to the fetches under way: the last fetch of a
view that nobody touched (`Calm`) will show the truth once it has all of its answers. The
chart needs more, as its fetch has only the expenses for a while: with the categories that
there are now, these would show the truth, so a category made or destroyed meanwhile has to be
followed. A deletion that waits for its answer may already have changed the incomes (the page
fetches them anew once it is answered), which is why `Calm` excludes it.

`FillsInv` rests on an amount being typed once. A create that was
answered with success reset its form, so the form is empty or holds another amount, and a
second create of the same amount must have been sent before that answer, or after one that was
no success. `NullAssumption` keeps "no row" apart from the ids.

What is only model-checked. Every invariant, action property and refinement of the passing runs
is stated by a theorem. Liveness is not (`Converges`, `KeepsRunning`, `CallReturns`,
`DeletedVanishes`, and the refutations of `AgreementReached` and `NewElection`): it rests on fairness
and ENABLED, which the prover does not reason about.

## 5. Not modelled

- `trab1`: a stateless service and clients that time it; no two steps of it interact.
- `raft/util.go`: logging. `GetCount` and the dispatch by name of labrpc. Snapshots, which
  `raft.go` never uses. The agreement checks of `config.go`, which are quoted by the runs.
- Dates, texts and pictures of the wallet; which modal of `WalletResume` is open; the filter
  buttons of `ActivityList`, which filter nothing. `Navbar` and `reportWebVitals`.
- `ExpenseList.js` and `ConfigCategoryButton.js`: no file imports them; the first is an older
  `ActivityList`.
- Routing, the database connection and the start of the processes, beyond what `Init` says.
- The writes of `rf.state` without the lock are actions between critical sections; that the Go
  memory model allows a reader not to see one is not modelled.
- A leader that nobody elected, and a log that is never repaired, follow from the same lines as
  `raft_election_safety` and `raft_agreement`, and have no runs of their own.
