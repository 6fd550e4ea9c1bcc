# A TLA+ verification of Webserver42

Webserver42 is an HTTP/1.1 server in C++98 for one process and one thread: a
kqueue event loop, handlers that are called once per event and keep what they
have done so far in the client's structure, and CGI scripts as child processes.
This directory holds TLA+ modules translated from that code, TLC
configurations that check small instances of them, and proofs checked by TLAPS
that the most important properties hold for every instance.

All source paths below are relative to the repository's `src/` directory.

## 1. Inventory

| component | code | state it keeps | operations |
|---|---|---|---|
| event loop | `multiplixers/kqueue.multiplixer.cpp`, `includes/kqueueManager.struct.hpp` | `servers_map`, `clients_map`, the current `events[]` batch; in the kernel: descriptors and kqueue registrations | `multiplex`, `handle_connection`, `handle_client`, `handle_disconnection`, `add_client`, `remove_client`, `add/delete_kqueue_event` |
| HTTP handler, request parser | `handlers/http_handler.methods.cpp`, `parsers/http.parser.cpp` | `client->state`, `request_time`, `request->lines`, `body` | `handle_http`, `read_header`, `parse_request`, `architect_response` |
| response decision chain | `handlers/handlers.methods.cpp`, `includes/response.struct.hpp` | status line, header map, `filepath`, `is_chunked`, `is_cgi` | `handle_400` ... `handle_200`, `fill_response`, `write_response_in_socketfd` |
| uploads | `methods/post.method.cpp`, `methods/put.method.cpp`, `tools/upload.tools.cpp` | `request->file`, `first_time`, `body`, `body_size`, `content_length`; the directory and its files | `create_file`, `upload_file`, `parse_non_chunked_body`, `upload_finish` |
| GET, DELETE, OPTIONS | `methods/*.cpp` | `response->fd`, `buffer` | `handle_static_file`, `handle_directory_listing`, `handle_delete_*`, ... |
| CGI | `tools/cgi.tools.cpp` | `cgi_pid`, `cgi_running`, `ex_childs`, files under `/tmp` | `handle_cgi`, `serve_cgi`, `parse_cgi_output` |
| configuration | `parsers/methods.parser.cpp`, `parsers/tokenschecker.parser.cpp`, `includes/structs.hpp`, `handlers/webserver.methods.cpp` | the scanner's position and blocks; the http, server and location settings; `is_warning_set` | `parse_words` and the loops below it, `is_http_line_valid` and its siblings, `fill_http_data`, `fill_server_attributes`, `handle_locations`, `set_all_warnings`, `is_there_a_cycle` |
| command line, start-up | `tools/cli.tools.cpp`, `tools/main.cpp`, `handlers/webserver.methods.cpp` | options (`t_cli`) | `parse_and_get_cli`, `help`, `check_is_project_well_structured`, `run` |
| not reached | `tools/server.tools.cpp`, `includes/manager.struct.hpp`, `includes/poll.class.hpp`, `methods/trace.method.cpp` (and `parse_chunked_body`, the response cache) | | |

**Interaction.** There is one thread. `kevent()` yields a batch of events; for
each, the loop calls `accept` + `add_client`, `remove_client`, or
`handle_client`. `handle_client` runs up to three phases on the same client:
`handle_cgi`, `handle_http` (read, parse, decide), the method handler. They
communicate only through `client->state` and the request and response objects;
afterwards the loop closes the client, resets it for the next request, or
leaves it, and moves its registration between `EVFILT_READ` and
`EVFILT_WRITE`. Between two handler calls anything may happen outside: peers
connect, send, stop reading, close or reset, children exit, time passes,
other requests change the files.

**What is hard.** (1) Events are handled after the state they describe has
changed (a batch outlives the clients in it; descriptor numbers are reused).
(2) The registration of a client has to follow its state through every path of
`handle_client`, one of which reads the client after freeing it. (3) Time-outs
are evaluated only when a client raises an event. (4) An upload is cut into
pieces at arbitrary bytes, some of which arrive with the header, and other
requests create, truncate and delete files in between. (5) Peers disappear at
any point. (6) The scanner of the configuration file is five loops that share
one position and look ahead, and what it finds is copied from block to block
into structures whose members are not all initialised and do not all have the
width they are copied from. (7) A header arrives in segments cut anywhere, and
what goes wrong in it may end or stop the only thread. `PROJECT.json` lists
each hazard at its line with the property that would catch it, or with the
reason why none does yet.

**What makes each component correct.**
- *Event loop*: the client map, the open descriptors and the registrations
  agree; an event is only ever handled for the connection that raised it;
  every client can make progress or times out; queued connections are accepted;
  closed peers are let go.
- *Uploads*: the stored bytes are a prefix of the body, in order; an
  acknowledged upload is complete and no longer than declared; two uploads do
  not share a file; the size limit holds; every upload whose body arrives is
  answered.
- *DELETE*: what the answer says of the tree is so.
- *Response chain*: one answer per request, framed so that the next one can
  follow it; the keep-alive header agrees with what the loop does; a file is
  sent to its end.
- *Header reader*: the parsed lines do not depend on the segmentation; no
  request ends the program or keeps it from serving others.
- *CGI*: a client is answered with the output of its own script and no other,
  of which only a `send()` that takes less may lose anything; a time-out kills
  no other process; no script and no client is forgotten.
- *Configuration*: the scanner finds what the author wrote, however it is laid
  out; the port is the one of the file; the settings a request is answered by
  are those of the nearest block; redirections in a circle are warned of, and
  strict mode never starts a server with a warning; reading any file ends.

## 2. Modules

| module | what it is |
|---|---|
| `Kqueue` | the event loop: state, kernel, peers, one action per operation |
| `KqueueProps` | its properties |
| `KqueueProofs` | TLAPS proofs of its safety properties |
| `MCKqueue` | symmetry for the small instances |
| `Upload` | POST and PUT uploads of several clients into one directory |
| `UploadStore` | abstract specification: an atomic document store |
| `UploadProps` | the properties of uploads and the refinement mapping |
| `UploadProofs` | TLAPS proofs of their safety properties, and that POST uploads implement `UploadStore` |
| `MCUpload` | sets of requests for the small instances |
| `Respond` | one request after another on one connection: the chain of handlers, the heads they write, GET, DELETE, OPTIONS |
| `RespondProps` | properties of the answers on the wire |
| `RespondProofs` | TLAPS proofs: one answer, its connection header, what DELETE says, the framing of what is kept |
| `MCRespond` | the combinations of requests and facts of the site |
| `Cgi` | scripts of several clients, their children, exit codes and output files |
| `CgiProps` | its properties |
| `CgiProofs` | TLAPS proofs of its safety properties |
| `MCCgi` | its small instance |
| `ConfigParser` | the scanner of the configuration file, one action per turn of its loops |
| `Settings` | token tables, checks, conversions, and the filling of settings from block to block |
| `HeaderReader` | `read_header` and `parse_request` over the segments of a connection |
| `Site` | the program from its command line to an answer: composes the three modules above |
| `SiteProps` | what the operator and the client may expect of it |
| `SiteProofs` | TLAPS proofs of what strict mode and the warnings promise, and that the scanner finds what is written |
| `SettingsProofs` | TLAPS proofs of `Site`'s types, of the ports, the time-outs and the settings a request is answered by |
| `HeaderProofs` | TLAPS proofs of what is read of a header that comes in segments |
| `MCSite` | families of files, command lines and headers |
| `SetInduction` | induction over the naturals, for a set; used by the proofs |

The modules meet at `client->state`. `Kqueue` takes every handler as "may
leave these states and may need so many more calls"; `Upload`, `Respond` and
`Cgi` are those handlers in detail, for the clients that are in their states.
`Site` is what comes before: it ends in `running`, where the event loop starts,
with the settings from which the other modules take their facts (limits,
whether a method is allowed, where a path leads), and follows one client through
them.

### Kqueue

One action of the loop is one iteration of the body of the `for` loop
(`HandleEvent`) or the `kevent()` call that produces the next batch
(`Kevent`). Peers and the clock act between any two of them.

| variable | code |
|---|---|
| `clients` | `clients_map`; a client is its connection, `state`, `work`, and whether its deadline has passed |
| `sock` | the kernel's open client descriptors and the connections behind them |
| `knotes` | registrations made with `EV_ADD`, not yet deleted or dropped by `close()` |
| `events` | what is left of `events[0..revents-1]` |
| `backlog`, `peer`, `inb`, `full` | the listener's queue; per connection: what the peer did, unread segments, a full send buffer |
| `process` | the only thread runs, has called `exit(1)`, was ended by an exception, or is in a call that does not return |

`handle_client` is the composition of its phases: `CgiStep`, `HttpStep` and
`MethodStep` map a context (state, remaining work, the two buffers) to the set
of contexts the phase may leave behind, and `Settle` is everything after them:
disconnect, keep alive, or keep, with `MoveFilter` for lines 184-202. What a
request *is* is abstracted: `architect_response` may leave any state it can
leave, and `work` counts how many more calls the handler will take. After the
second `handle_disconnection` the code compares `client->state` of the freed
client (line 184); the model lets that read return any state, so that what
follows is shown harmless rather than assumed so. A batch is a set because
`kevent()` does not order its events.

Two things that a call may do are not left out although they stop the rest.
`GetStep` has the file that `read()` fails for (an index that is a directory,
`get.method.cpp:55-66`): its `work` becomes `Endless`, no call sends anything or
ends it, and since its socket stays writable and `EVFILT_WRITE` does not report
a FIN, the client stays. `ParseFails` is the header that `parse_first_line` or
`trim_string` does not survive (`http.parser.cpp:45`, `random.tools.cpp:43`): an
exception ends the process, or the only thread spins; which headers do so is in
`HeaderReader`. `MaxConnections` is the argument of `listen()`, which is all that
the code does with `client_max_connections`.

### Upload

Byte `i` that client `c` sends after its header is `<<c, i>>`, so that a byte
that is lost, repeated, misplaced or mixed with another client's is visible in
the contents of the files. One action is one call of `serve_client`
(`ServeData`, `ServeEof`), the arrival of a request with the first bytes of
its body (`Begin`), a disconnection by the loop (`Hangup`), or a DELETE of one
of the paths (`Unlink`). `create_file`'s calls of `open()` are described by
their results (an inode, the directory and the contents left behind); any of
its failures is `CreateFails`. `content_length` is a member that is never
initialised without a header of that name, so a request's `len` is any of a
set of integers, negative ones included (`std::atoi` gives them, `handlers.methods.cpp:360`).

### Respond

`Receive` is the call of `handle_http` in which a header is complete:
`parse_request`, `architect_response` and what `handle_client` does afterwards.
`Serve` is any later call for the same request, and `Touch` somebody else
changing the file that is sent. A request is a record of the facts that the
handlers ask for (`q`): what was in the header, and what `stat()`, `access()`
and the location say of the path; for a directory, with the tree below it.
`ArchitectResponse` runs `Handle400` ... `Handle200` in the order of the code,
each of which leaves the client alone or takes it, which is seen in `state` and
in the pieces that have been written (`wire`): heads, with their length,
framing and connection header, data, chunks, and the ends of both. The two
functions `fill_response` differ in whether they end the head and what they say
of the connection, so both are there. `rmfiles` is written out for a tree as a
set of paths: what it comes to (`Rmfiles`), and what is gone then (`Removed`).
`is_directory_listing` has no initial value in the code (`stale`). `Settle` is
lines 171-183 of `handle_client`.

### Cgi

`HandleClient` is one call of `handle_client` for a client in `SERVING_CGI`:
`Reap` (one `waitpid`), `HandleCgi`, `Settle`. It is computed on a context, the
client with everything the clients share, because the call may reap one child,
start another, kill a third and remove files. The children (`Open`, `Write`,
`Exit`) run between any two calls, and go on after their client has left.

| variable | code |
|---|---|
| `clients` | state, `first_time`, `cgi_running`, `cgi_pid`, `cgi_out`, `request_time` (as `late`), and what was answered: `code`, and `sent`: the scripts whose output it holds (`by`), and whether it is all there was (`whole`) |
| `kids` | the processes, with the file that each has open, and who killed it |
| `ex_childs` | the map of exit codes |
| `tmp` | the names `/tmp/cgi_out`, `/tmp/cgi_out1`, ... |
| `raced` | history: a name was given to a script while an earlier one might still use it |

The whole output is given to one `send()` on a non-blocking socket, whose result
is not looked at (`cgi.tools.cpp:131`): what finds no room in the send buffer is
lost. `SendOutput` is that call; it may deliver less than there is, or nothing,
and the client is `SERVED` in any case.

`cgi_running` and `cgi_pid` are not initialised: a request starts with any
value of both. `pid` numbers are not given out twice, which is an assumption
about the system. The body of a POST comes in as in `Upload`; only its end is
of interest here.

### Site

`Site` is `main()`: one action for every stage, one per turn where a stage is a
loop, and the client at the end. It chooses its `input` at the start, a file
with a command line, the segments of a request, and what is found in memory that
is read before it is written (`is_reset_logs`, the `directory_listing` of a
server). The input also says what its author meant, which only the properties
look at: the directives of every block before they were laid out as text, how
much of them stands in front of each line (`places`), and the header before it was cut, with how many of its lines each segment completes.

| variable | code |
|---|---|
| `phase` | how far `main()` has come, or the exception or `exit()` it has ended with |
| `words`, `at`, `i`, `j` | the words of the file, the loop that is executed, the position all loops share |
| `http_index`, `http_as_words` | of `parse_http_configs`, and what it collects |
| `id`, `line_words`, `node`, `nodes` | of `parse_server`: the name of the block, the line and the block that are collected, and the blocks |
| `cli`, `http`, `servers` | `t_cli`, `t_http_configs`, and the servers with their locations (`dir_configs`) |
| `is_warning_set` | of `Webserver` |
| `segments`, `lines`, `body`, `reader`, `request` | what the client has sent, and what `read_header` and `parse_request` make of it |
| `response`, `nth`, `hops` | the location and the answer that `architect_response` decides on, which request of the connection it is, and how often the client was sent on |

*ConfigParser*. A line is a sequence of words. The scanner has the code's quirks:
where it looks at the next line before it takes a word, takes the name of a
block from the end of the bracket's line, or reads a word at a position that
may not exist, which is the end `undefined`. Line and word are counted from 1.

*Settings*. A block's settings are a record with a field for every token its
filling function looks at; `FillBlock` is the loop over the lines, and
`ServerDefaults` and `LocationDefaults` are the constructors and assignments
that hand settings down. Numbers go through `AsInt` and `AsShort` where the code
stores them in an `int` or a `short`. What a word spells (its leading digits,
its unit, the names between its slashes) is given by constants; a word that is
not in the table `Segments` is one name.

*HeaderReader*. A segment is one `recv()`, a sequence of `CR`, `LF`, blanks
and words. `ReadLines` is the loop over its bytes. `LineEnds` looks at the byte behind the buffer when the last one is a
`CR`, as the code does; what is there is chosen (`behind`).

After the header `ArchitectResponse` looks up the location (`DirConfigs`), the
path (`ChangePath`) and the answer, as far as it depends on the settings alone;
`Respond` has the rest of the chain. `Settle` is the end of `handle_client`:
the connection is closed, or reset for the next request; whether an error page
is there, or the file, is chosen. What is left of the segments is then read as
a header, a body that was refused with it. `Follow` is a client that requests
what a 301 names, on a connection of its own. After the end (`Ended`), after an
answer, and where the thread or the header hangs, `Done` lets time pass.

## 3. Runs

| run | instance | question | result |
|---|---|---|---|
| `kqueue_safety` | 2 descriptors, 3 connections, 1 segment, 1 call of work | `TypeOK`, `MapMatchesSockets`, `OneFilterPerClient`, `FreshEvents`, `RestingStates` | hold, 546 886 states |
| `kqueue_live` | 2 descriptors, 2 connections | `WaitingEnds`, `QueuedAccepted`, `ClosedPeersReleased` | hold, 85 296 states |
| `kqueue_closed` | 1 descriptor, 2 connections | `ClosedRemoved` | violated: a finding |
| `kqueue_upload` | 1 descriptor, 2 connections | `UploadEnds` | violated: a finding |
| `upload_safety` | 2 clients, 3 inodes, 3 paths, buffer 2, limit 2, all requests | `TypeOK`, `StoredInOrder`, `AcknowledgedIsComplete`, `PostsApart`, `WithinLimit` | hold, 808 596 states |
| `upload_store` | 2 clients, 2 paths, POST only | `StoreSpec` (refinement of `UploadStore`), `UploadAnswered` | hold, 629 725 states |
| `upload_chunked` | 2 clients, chunked POST only | `ChunkedDecoded` | violated: a finding |
| `respond_all` | every combination of facts that interact, files of 0, 2 and 3 pieces, buffer 2, trees of two levels | `TypeOK`, `OneAnswer`, `FramedWhenKept`, `KeptAsAnnounced`, `DeletedAsTold`, `GetFinishes` | hold, 196 803 states |
| `respond_keepalive` | the same | `KeepAliveHonoured` | violated: a finding |
| `cgi_scripts` | 2 clients, 2 pids, 2 names | `TypeOK`, `AnswerAfterExit`, `OutputOwn`, `NoForeignKill`, `TimedOutAnswered`, `ExitAnswered`, `ZombiesReaped` | hold, 327 396 states |
| `site` | 745 files, command lines and headers in eight families | `TypeOK`, `ParsedAsWritten`, `ListensAsWritten`, `NearestBlockDecides`, `StrictNeverWarned`, `StrictWithinLimits`, `EndlessRedirectWarned`, `HeaderAsSent`, `RequestsSurvived`, `AnsweredInTheEnd` | hold, 33 890 states |
| `site_nearest` | each token in any of three blocks | `EachBlockPrioritized` | violated: a finding |

**Bounds.** *Kqueue*: two descriptors and three connections are the least with
which a descriptor is reused by a connection that was queued while both were in
use; a third descriptor adds only symmetric copies. One unread segment and one
unit of work distinguish "nothing", "something" and "not yet done", which is
all the guards test. *Upload*: a buffer of 2 with bodies of up to 3 bytes gives
a body in one segment, one that ends inside, at, and behind a buffer boundary,
and bytes behind the declared end; lengths of -1 and 0 are the boundary of the
comparison in `parse_non_chunked_body`; two clients are the least that can
collide on a path; three inodes allow both to write and one file to be there
before. The limit of 2 lies between the declared lengths. The proofs (section 5)
remove the bounds of the instances for the safety properties of `Kqueue`,
`Upload`, `Respond`, `Cgi` and `Site`, and for the refinement of `UploadStore`.
*Respond*: the
facts of a request are varied together where a handler reads both, and one at a
time around a plain GET otherwise (`Refused`: the handlers before `handle_200`
that take a request whatever the path is). A file of 0, 2 and 3 bytes with a
buffer of 2 is empty, one full buffer, and a full one with a rest. The trees
for DELETE have a file and a directory with a file, each of which may be
missing, closed or impossible to remove. One request per connection: `reset`
leaves a record that `Receive` overwrites, so that a second one starts from the
same values. *Cgi*: two clients are the least that can take each other's child,
name or exit code; one script each. Three clients are needed to see the output
of one in the answer to another through a third one's `~request`: a search of
15 million states of that instance, up to 17 steps deep, found nothing, but it
is too large for a run.

*Site*: a sequential program, so that an instance is a set of inputs. They are
families around one plain site, each of which varies together what interacts:
every layout (bracket on the line or the next, closing bracket behind the last
word or alone, remarks and empty lines, directives of the http block first or
last), and a file with directives of a server behind its location and of http
between two servers; every token in any of the three blocks; ports at 0, 65535, at and beyond
the width of `short` and of `int`, missing, repeated, and taken; all
redirections between three locations, one of which may be a page for 301, with
and without strict mode; headers cut once or twice at any place; headers with
an oddity each; two requests on one connection, the first kept or refused, with
and without a body, cut between and behind them; command lines; and files with
one line that is wrong in each of the blocks. `IntRange` is 2^25 in place of
2^32, whose integers TLC does not have: the arithmetic is the same, and
16777296 lies beyond an `int` that is so narrow. `MaxHops` is 4, more than
there are locations, so that a client that has been sent on that often has been
somewhere twice.

**Deadlock** is checked for the event loop: it can always go on (`Stopped` is
the only end, when the process has ended or hangs). The upload runs set `CHECK_DEADLOCK FALSE`:
each client makes one request, after which the system may stop. So it is in
`Cgi`. In `Site` the ends are listed (`Done`), and any other state that could
not go on would be a deadlock. In `Respond` somebody else can always change the
file (`Touch`), so that `GetFinishes`, not deadlock, is what shows that an
answer comes to its end.

**Fairness.** *Kqueue*: `WF(Loop)`, because the only thread runs
`while (1) { kevent(); for ... }` and never blocks elsewhere. A call that throws
or never returns ends that (`ParseFails`): from there `Loop` is not enabled, and
the properties name it as a way out, by `~up`. And weak fairness
of `Expire` while the process runs, because time passes. Nothing is assumed of
peers. *Upload*: `WF(ServeData(c))`, because an uploading client is registered
for input with a level-triggered filter and `kqueue_live` shows that batches
are worked off; `ServeData` is enabled only while the peer has bytes to send or
when the first call is due, so fairness also says that a peer that has
promised bytes sends them. No fairness for `Hangup` or `ServeEof`.
*Respond*: `WF(Serve)`, because a client with an answer to send is registered
for output: its socket raises an event whenever the send buffer is above its
low-water mark, and the peer is taken to read. A piece of a file
(`MAX_BUFFER_SIZE`, 1000 bytes) is smaller than that mark and so is sent whole or
not at all. *Cgi*: `WF(HandleClient(c))`, because nothing is sent to a client in
`SERVING_CGI` and its socket therefore stays writable. Scripts need not end and
clocks need not reach the time-out: `ExitAnswered` and `ZombiesReaped` hold
without either. *Site*: `WF(Next)`: `main()` is a single thread that nothing
waits for until it serves, and the client is one that sends what it has to
send; a client that stays silent is the subject of `Kqueue`.

**Mutants.** Next to a definition, a second operator with a plausible mistake
(`mutant:` in its comment) shows for each property what it guards against: a
descriptor that is not closed, a filter added but not removed, an event that
is not deleted, a state not restored after an incomplete header, `==` instead
of `<` at the end of a body, a buffer that is not cleared, a bracket on the
next line that is not seen, defaults that are not handed down, and so on.

## 4. Findings

1. `kqueue_upload`: an upload is registered for `EVFILT_READ` only and its
   deadline is evaluated only in `WAITING` and `KEEP_ALIVE`, so a body that
   stops arriving keeps its connection for ever. `README.md:49` describes
   `client_max_request_timeout` as "the max request time the webserver waits
   for the request".
2. `upload_chunked`: `request->is_chunked`, which `upload_file` tests, is
   never set; `handle_501` sets the member of the *response*
   (`handlers.methods.cpp:275`). A chunked upload is therefore stored with its
   framing, up to an uninitialised `content_length`. The comment at
   `handlers.methods.cpp:231-233` names chunked as what the server is capable
   of.

3. `respond_keepalive`: a request that `handle_http` answers by itself (404, 405,
   301, ...) is told `connection : keep-alive` by `Handlers::fill_response` and
   then disconnected by `kqueue.multiplixer.cpp:164`, which does not look at
   the header. `README.md:38`: "Keep-alive is also supported".
4. `site_nearest`: `README.md:42` says that "each location's configurations are
   prioritized over the server block, and each server block has the priority
   over the http block". For `directory_listing` of the http block this is not
   so: it is stored in a member nothing reads (`methods.parser.cpp:1048`), and
   a server starts with what the memory held. The same run refutes it for
   `support_cookies` of a server or a location, `cgi_max_request_timeout` and
   `client_max_uri_size` of a server, and the root a location does not set.
   `NearestBlockDecides`, which holds, names the tokens for which it is so.
5. `kqueue_closed`: a GET whose file `read()` fails for, which an index that is a
   directory does at every call, is neither answered nor ended
   (`get.method.cpp:55-66`), and the loop does not learn that its peer has
   closed, because `EVFILT_WRITE` does not report it: the client stays in the map.
   The comment above `set_manager` (`kqueue.multiplixer.cpp:60-63`) says that "if a
   connection has been closed it removes that client". `ClosedPeersReleased`,
   which holds, is the same for files that can be read.

Further disagreements between code and documents, seen while translating and
not given a run:
- `README.md:77-78`, pages for every error: for a file that exists and cannot
  be read the 403 page is looked for below the file itself
  (`handlers.methods.cpp:642`); DELETE, PUT, POST and every 500 use no pages.
- `README.md:42`: a location's `directory_listing off` does not override the
  server's `on` (`handlers.methods.cpp:571` takes either).
- `README.md:96-97`: `response.is_directory_listing` is set and never cleared or
  initialised (`response.struct.hpp:46-54`), so that a request for a file may be
  handled as a listing, which ends in two heads (`stale` in `Respond`).
- `README.md:37` names PATCH and TRACE, which `socket.hpp:42` does not: 400.
- DELETE: `remove()` of a directory is not looked at (`delete.method.cpp:39`): 204
  may leave it there; 403 may follow the removal of empty directories.
- A listing is announced as chunked and with a content-length
  (`get.method.cpp:137`).
- The tokens that `README.md:61-64`, `:81` and `:83` name (`proxy_cache` and its
  companions, `max_client_request_timeout`, `max_client_body_size`) are refused
  (`methods.parser.cpp:319-376`), and with them `etc/webserv.conf`.
- `README.md:47`: `allowed_methods *` is refused in the http block; in a server or
  a location it means the methods of the block above.
- `README.md:49-56` call sizes and times numbers; they are refused without a
  unit. The default of `cgi_max_request_timeout` is not 30 seconds but 1000000.
- `README.md:57`: `epoll` is refused, `poll` and `select` are accepted and end the
  program in `set_multiplexer`.
- The help text (`header.hpp:139-149`) names `-m`, `--activate-caches` and
  `--register-caches`, which `parse_and_get_cli` refuses;
  `--deactivate-strict_mode` clears `is_debugging_mode` instead.
- Strict mode does not notice a time-out whose seconds are beyond an `int`: a
  keep-alive of 2^32 seconds is 0 when it is compared with its limit.
  `StrictWithinLimits` leaves such times out.
- A location on one line loses its directives, a server that has only locations
  is dropped, a listen number beyond an `int` wraps, a directive of the http
  block at the end of the file and a directive with too few words are read
  past their end.
- The same holds of sizes and other numbers: `client_max_body_size 4294967296by`
  in a server is 0. `NearestBlockDecides` leaves numbers beyond an `int` out.
- `is_there_a_cycle` goes by names: `location / { redirect /x }` without a
  `location /x` sends a client round and is not warned of.
  `set_location_defined_multiple_times_warning` can never fire, because
  the map it is given has every name once.
- `README.md:38`: on a connection that is kept, the body of a POST or PUT that was
  refused with an error page is read as the next header, where a line of one or
  two words ends the program (`http.parser.cpp:45`); a request in the segment
  of another is taken for its body and not answered.
- `README.md:76`: `client_max_connections` is not "the maximum simultaneous
  connections that a server can handle": it only becomes the length of the queue
  given to `listen()` (`kqueue.multiplixer.cpp:51`, `90`), and at the limit of the
  process's descriptors `accept()` fails and `exit(1)` follows (lines 124-125), with
  the connection still queued and every other one lost.
- `README.md:68`: `listen` "specifies the port the virtual server should listen
  on"; 0 is accepted, and `bind()` takes it as any free port (`kqueue.multiplixer.cpp:25`, `48`).
- HEAD: the state `SERVED` is overwritten by the next line
  (`handlers.methods.cpp:174`); a second head or a body follows. `OneAnswer` and
  `FramedWhenKept` leave HEAD out for that reason.

## 5. Proofs

Eight modules are checked by TLAPS with no omitted step. Every theorem holds for
all values of the constants that satisfy the assumptions of its module:

| assumption | it says | why it is so |
|---|---|---|
| `BoundsAssumption` (`Kqueue`) | the limit of connections and the two bounds are naturals | they count |
| `SizesAssumption` (`Upload`) | sizes are naturals, the buffer is not empty, requests are well-formed, `None` is not an inode | `MAX_BUFFER_SIZE` is 1000 |
| `RespondAssumption` (`Respond`) | the same of its sizes and requests; `SiteOf` of every request | `SiteOf` is what a file system can hold: only a directory that is there has anything in it, only directories have anything below them, and a path that is both a file for `stat()` and a directory is a directory |
| `CgiAssumption` (`Cgi`) | the number of names is a natural; `None` is no client, pid, name or code | `None` stands for "no entry" |
| `SettingsAssumption` (`Settings`) | the tables give every word a number, or names; `IntRange` is positive | they tabulate `atoi` and the splitting of a path |
| `SiteAssumption` (`Site`) | files are lines of words, segments are pieces of text, memory holds a truth value; `MaxHops` is a natural | that is what the program is given |
| `SentAssumption` (`SiteProps`) | what a client sends are headers of lines that are not empty, and bodies; if no line is torn and requests stand apart, each segment holds whole lines, the last of a request also the empty line and the start of the body, and the next request starts with the next segment | it says what `torn` and `apart` mean; other ways to cut are not restricted |
| `MeantAssumption` (`SiteProps`) | what an author meant are blocks of directives, none of them empty; in a file that is `plain` no location stands in another | it says what `plain` means; other files are not restricted |
| `PlainAssumption` (`SiteProps`) | in a file that is `plain` no word is a bracket, no server's directive holds the word `location`, there is a server and each has a directive; and every line leads from one place of the file to the next (`LineBetween`): it opens a block, with the bracket behind its name or on a line of its own, is a directive, or closes blocks that are complete | it says what `plain` means; other files are not restricted. Blocks and directives may come in any order; what it leaves out are brackets in the middle of a line and behind the last directive of the http block, where the scanner does get lost or reads behind the last line |

TLC evaluates them on every run.

*Kqueue.* The inductive invariant is the conjunction of all the safety
properties with `BacklogDistinct` (a connection is queued once). None of them
is inductive alone: `FreshEvents` needs that a descriptor is registered for
one filter only, or an event for its second one would survive the removal of
the client; `OneFilterPerClient` needs that the map and the open descriptors
agree, so that a registration for a closed descriptor has no effect, which is
also why the comparison with freed memory changes nothing;
`RestingStates` is needed because `MoveFilter` is computed from the state
before the call. What ends or stops the process (`AcceptFails`, `ParseFails`)
changes nothing that they speak of. There is one lemma per action, below it one step per
conjunct the action can disturb, and type lemmas for the phases.

*Upload.* `StoredInOrder` says what is in a file; to be inductive it needs what
is *not yet* in it: `ServingInOrder` says that `request->body` is exactly the
part of the stream between what was written and what was received.
`WritePrefix` (a piece written behind a prefix extends it), `SegmentConcat` and
`SegmentFront` are the facts about pieces; `OpenedFacts` says what `open()`
leaves behind; `StoredKept` carries the argument that a call disturbs only the
file it has open, and `ApartKept` that a POST's file is its own.

*The store.* `StoreImplemented`: if all requests are POSTs (`OnlyPosts`), `Upload`
implements `UploadStore` under the mapping of `UploadProps`. The initial states
map to initial states; `DataStep` shows that the one call that acknowledges is
`Store(c)` and that any other step of `c` changes no document, `OwnFile` and
`OthersKept` that no step changes those of others. Without `OnlyPosts` it is not
so: a PUT truncates a file that another client has been told is there.

*Cgi.* `handle_client` for a script is a composition of steps (`Reap`, `HandleCgi`
with `Begin`, `Prepare`, `Fork`, `Collect` and `TimeOut`, then `Settle`), so the invariant `Inv` is
stated of the parts of a context and not of the variables, and there is one
lemma for what each step does to it, and one that lifts it to contexts. It
says of children that the client that owns one knows its pid and its name
(`Owned`); of exit codes that they are those of children that were waited for
(`ExForm`); of files that a child's output is open under a name only if the file
is there (`FileForm`); and, as long as no name was given out twice, that no two
children hold one name, that a file has what its child wrote, and that the
client of a script that has opened its output will find it (`Apart`), and that what a client was sent is of its own script, all of it if
`send()` took all of it (`IsOwn`, `Own`). The
condition is the one `OutputOwn` has, because the code does lose it otherwise:
`raced` is set when a name is chosen whose file an earlier script has not created
yet, or whose earlier client still waits to be answered from it. The hard step is `fork()`, where a name becomes in use in the step in which
it is known to be free (`ForkInv`), and next to it the failed one (`Unforked`).
`AnsweredAfterExit`, `OutputIsOwn` and `KillsOnlyItsOwn` follow.

*Respond.* Between two calls a client is `Serving` or was `Answered`. `Serving` says
that nothing was sent before its method is called the first time, that a GET
that goes on has exactly one head behind it, that a listing is one that can be
listed, and that a connection that will be kept is one that the response will
announce or has announced. The lemmas go through the chain in the order of the
code (`Handle404Decides`, `Handle200dDecides`, ..., `ArchitectDecides`), through the
handlers of the methods (`ServeFileOutcome`, `ServeListingOutcome`,
`DeleteOutcome`, ...), and through the end of `handle_client` (`SettleGood`).
`DeletedTree` shows, for a tree of any depth, that what `rmfiles` comes to agrees
with what is gone. From `AnswerInvariant` follow `OneAnswerEach`, `KeptIsAnnounced`
and `DeletedIsTold`.

*The framing* has an invariant of its own: the chain leaves a response without
any framing (`Unframed`), or a GET whose head fits the file (`Ready`); while the
file is sent the pieces behind the head are of the kind announced and add up to
what was read (`Sending`); at its end they are the body that was announced
(`Framed`). `Bytes` is the sum over a recursive function on the pieces, so that
`SumExists`, `SumSame` and `BytesAppend` need induction. The library's induction
theorems take an operator, which the provers cannot instantiate; `SetInduction`
proves the principle for a *set* of naturals from the theorem that `<` is
well-founded, and the proofs apply it to the set of numbers for which the claim
holds.

*Site.* Two promises are proved for every file, command line and header. For
`StrictStart` the invariant follows the servers: those that `set_all_warnings` has
passed are `Fine`, or the flag is set (`WarnedOrFine`), later stages pass all of
them (`Filled`), and strict mode is as it was asked for (`AsAsked`);
`SetWarningsKeeps` is the step that matters: it looks at one server, compares it
with the names before, and changes its settings in the same turn. For `EndlessIsWarned` the invariant says that a client that has
been sent on is at the end of a walk along redirections (`Followed`). A walk that
is longer than there are locations visits one twice, so that there is a
circle, and a circle is found by `is_there_a_cycle` whatever the order of the
search (`AfterExists`, `CircleFound`, `WalkFound`, by `SetInduction` as well).

*The settings.* `FileInv` says what is kept of the file: the scanner only ever
collects lines of words (`ScanType`, one lemma per loop in
`ScanTypeKept`); what is filled from was found valid (`Read`); server `k` was filled
from node `k`, nothing stopped it, and its values were lowered at most once, with
a warning (`FromFile`, `OfNode`); an answer goes by the location of the request at
hand (`Answers`); a request takes at least a segment (`Counted`). `OfNode` compares
servers with blocks and `http`, and so needs what `Read` says of the phases: that
neither changes once the first server is filled.
`TypeCorrect` follows with `PortType`: that -1 is never bound is not a matter of
types but of `UndefinedPort` being thrown.

The rest is about the filling, which is one step of the model and many lines of
the code. `Latest` is the last line for a token, `Filling` what one line makes of
a setting; `FillBlockIs`, `ServerFillIs` and `HttpFieldIs` say that a block's loop
leaves just that, `LatestOfBoth` that what comes behind counts more, and
`NumberInForce` that a number comes through two blocks, a `long long` and an `int`
unchanged. From these and `FileInv` follow `ListensAsRead` (by `ShortWritten`: 16 bits
and back) and `StrictIsWithinLimits` (a value that had to be lowered is a
warning, so in strict mode none was). For `NearestDecides` the locations have to
be found first: `FlattenAt` says where each of several sequences lies in the one
they make, `StartsAre` and `LocationsAre` that `handle_locations` cuts
`location_blocks` there and nowhere else and keeps the first of two with one name, and
`LookedUp` that `DirConfigs` is the longest name or there is none. Then each setting
is followed down: `Chained` is the step from one block to the next; pages are
collected by code and handed down (`ServerPages`, `LocationPages`); the files for 404
grow at their end by a page in either block (`TriesInForce`).

All this is about what happens to a file once the scanner has found what is
written in it.

*The scanner.* That it does is `ParsedIsAsWritten`, for any number of servers,
locations and words. `PlainAssumption` gives a place in front of every line, and
`LinesAreOfKind` says which eight kinds of line there are and what each does to a
place. From the places it follows that the brackets are balanced at every line
and in every column, so that `is_config_file_valid` lets the file through
(`BalancedLines`, `BracketsAreCorrect`, `ThreeWords`), and how each line ends and what the
next begins with, which is what the loops look ahead for (`LineBrackets`, `KindAt`,
`PlaceBehind`). The invariant is `Reading`: between two turns the scanner is
between servers, at a bracket, in a directive, or in a block
(`BetweenServers`, `AtBracket`, `OnDirective`, `InBlock`); and what it has collected, lines
of http, complete servers, the node of this one and the words of this line, is
just what stands in front of a place. The five loops share one position but hand
it over in different ways, behind a line's last word, at its bracket or at the
next line, so that the place is that of line `i` in some states and of `i + 1` in
others. There is one lemma for each loop and each kind of line it can meet
(`HttpDirectiveIsRead`, `ServerStarts`, `DirectiveKept`, `ServerEnds`, `LocationNameIsRead`,
...), and `ScanKeepsReading` puts them together: every turn goes on to a place, or
ends behind the last one with all that was meant (`Complete`). `Reading` was checked
by TLC on the files of `site` before it was proved. `ParsedIsAsWritten` is
then what `ListensAsRead`, `StrictIsWithinLimits` and `NearestDecides` rest on.

*The header.* A segment is text: `TextAt` says at which position each of its lines
ends, `Marks` that the ends of line which the reader finds (with whatever lies
behind the buffer) are those and no others, `LineStartIs` that a line starts
where the one before it ends, although the code searches backwards for it. Then
the loop over the bytes pushes back the lines that were sent (`LinesAreRead`,
by induction over the lines; between two of them nothing is pushed back,
`ScanRests`), an empty line is found only where the header ends (`NoneIsEmpty`),
and what follows is the start of the body (`LastLinesRead`). The induction is
`SetInduction`'s, over the recursive functions of the model (`ScansExists`,
`CollectsExists`). `Holds` is the invariant of the loop over the lines: of those
with one name the first counts. `HeaderInv` connects the calls: while a request is
read (`Receiving`), the lines are those of the segments received so far, there is
no body, and what is left on the wire starts with the next segment; afterwards
(`Received`) with the next request. That last part is what makes it inductive on
a kept connection: `SettleKept` needs that `reset()` leaves neither lines nor
body behind, which is what the mutant `SettleSame` gets wrong. `HeaderInv` also says
that a request that is well sent has not thrown, exited, spun or been read beyond
its end, so that `HeaderIsAsSent` and `RequestsSurvive` both follow.

**Only model-checked.** Liveness (`WaitingEnds`, `QueuedAccepted`, `ClosedPeersReleased`,
`UploadAnswered`, `GetFinishes`, `TimedOutAnswered`, `ExitAnswered`, `ZombiesReaped`,
`AnsweredInTheEnd`) rests on fairness and `ENABLED`, which are outside the
prover's reach; every other property of a passing run is also a theorem. Files that
are not plain, and headers with a line that two segments share, are only
model-checked, by the properties that speak of them. The five properties that are expected to fail
(`UploadEnds`, `ClosedRemoved`, `ChunkedDecoded`,
`KeepAliveHonoured`, `EachBlockPrioritized`) have counterexamples, not proofs.

## 6. Plan

Done: the event loop, uploads with their store, the answers, the scripts, and
the way from the command line and the file to a request's settings; and proofs
of all their safety properties for every value of the constants.

1. *Cgi* with three clients, on an instance cut down to their names.
2. Listings whose single `send()` is cut short; descriptors of files.

## 7. Not modelled

The wording of requests and responses, MIME types, status texts, HTML pages and
logging are abstracted. Of the configuration, the names `localhost1`, ... given
to servers without one, the debugging flag, which nothing reads, and the
question `--reset-logs` asks are left out.

Never reached, and so not modelled: `server.tools.cpp`, `manager.struct.hpp`,
`poll.class.hpp`, `trace.method.cpp`, `parse_chunked_body`, the response cache;
in the parser `build_with_vector`, `push_node`, `fill_words`, `get_identifier`,
`get_max_body_size`, `is_parsed_data_valid`, and the result of
`build_brackets_queue`; in `webserver.methods.cpp`
`create_redirection_graph`, `is_root_cycled`, `is_cycled`,
`set_redirection_path` and the functions for caches.

Failing and short `write()` calls and the descriptors of files are left out of `Upload`
so far. In `Respond` the settings and the path are facts of the request (`Site`
has where they come from), error pages are taken not to be scripts and not to be
directories (one that is stalls the client as an index does, which `Kqueue` has),
a listing is sent as a whole or not at all, and nobody
else works on a tree that DELETE removes. `Cgi` leaves out the environment of a
script and the bytes of its status line, and pids that are used again: an entry
of `ex_childs` whose client is gone stays for ever, and the next script with
that pid would be answered from it.
