# A TLA+ model of NOSgem

NOSgem is a Gemini browser for DOS: C89 and 16-bit Open Watcom C++, one thread,
mTCP below, wolfSSL for TLS, trust on first use for certificates. These modules
model its own code (`src/src/`, about 2,300 lines); mTCP and wolfSSL appear only
as far as that code sees them. TLC checks small instances, TLAPS proves what
holds for every instance. `PROJECT.json` maps every definition to its lines.

    tlc -workers 2 -config MCGeminiRequest.cfg MCGeminiRequest   # a run
    tlapm GeminiRequestProofs.tla                                # proofs

## 1. Inventory

| Part | State | Operations | Works with |
|---|---|---|---|
| TLS connection, `tls_io.cpp` | a socket out of mTCP's pool (one), its receive buffer, a `WOLFSSL_CTX`, a `WOLFSSL` | `nos_dns_resolve`, `nos_tls_connect`, `nos_tls_close` | called by the request; polls mTCP by hand |
| TLS IO callbacks, `tls_io.cpp` | mTCP's receive ring, outgoing and sent queue, the peer's window | `nos_tls_send`, `nos_tls_recv` | called back by wolfSSL in handshake, read, write, shutdown |
| Gemini request, `gemini.c` | current URL, redirect count, the caller's `resp`, `err`, `*body_len`; a buffer | `nos_gemini_request_stream`, `nos_gemini_request` | connection, TOFU, URL; calls back the browser with the body |
| TOFU store, `tofu.c` | `known_hosts.txt`, `known_hosts.tmp` | `nos_tofu_check` | called on every connection; prompts the user |
| URL, `url.c` | none | `nos_url_parse`, `nos_url_resolve` | browser, request |
| Gemtext and renderer, `gemtext.c`, `render.c` | line buffer, `in_pre`, links, lines on the page | stream init, feed, flush; parse a line | fed by the body callback and by local files |
| Browser, `main.c` | current URL, links of the page | the command loop | everything |
| History, `nav.c` | a stack of 32 URLs | init, push, pop | browser |
| Bookmarks, `bookmarks.c` | `BOOKMARKS.GEM` | add | browser writes; renderer reads |
| Configuration, `config.c` | HOME, PAGE_LINES, MAX_BODY | defaults, load | browser |
| Prompt, `ui.c`; entropy, `entropy.c` | stdin; a generator | prompt; random byte | browser; wolfSSL |

What is hard in it, although there is one thread:

* **Everything can stop anywhere.** Name server, peer and disk answer, refuse or
  stay silent between any two steps; only the program's own timers end a wait.
  Correct means: every call returns, and returns everything it took, because the
  pool has a single socket and the next page needs it.
* **A request is a chain.** Redirects and inputs reconnect, possibly to another
  host. Correct means: the certificate of *this* connection was accepted before
  anything is sent on it, the chain is bounded, the page comes from the last
  answer, and the results agree with what happened.
* **The store is a text file.** It is updated by copy, remove and rename, edited
  by hand, and may fill the disk. Correct means: nothing is trusted without a
  reason, nothing changes without consent, an update changes one entry and no
  other, and an accepted certificate stays accepted. Between remove and rename
  the table can be lost, but only as a whole: nobody reads `known_hosts.tmp`.
* **State outlives its page.** Links, history and the URL belong to different
  moments: a number must follow a link of the page on the screen, `b` must
  retrace the steps, a bookmark must open again.
* **Bytes come in pieces.** Packets are processed only while a callback polls,
  and a chunk of the body ends anywhere. Correct means: the IO callbacks carry two
  streams in order, whole, with an end; what is on the screen, in the links and
  behind `--More--` depends on the body and not on the cuts.
* **16-bit integers and fixed arrays**: body lengths, link numbers, 32 pages of
  history, 256 links, 512 bytes of path.

`PROJECT.json` lists these hazards with their lines, and the properties that
would catch each, or why none does.

## 2. The modules

    GeminiFetch  <==implements==  GeminiRequest --extends--> TlsConnection
    TlsStream    <==implements==  TlsBridge
    TrustStore   <==implements==  KnownHosts
                                  Browser  --extends--> Url, Config
                                  PageBody --extends--> Gemtext, Config

    proofs: TlsConnectionProofs <- GeminiRequestProofs
            KnownHostsProofs, TlsBridgeProofs
            FoldLemmas <- BrowserProofs
            FoldLemmas <- PageBodyProofs <- PageContentProofs
    instances: MCTlsConnection, MCGeminiRequest, MCTlsBridge, MCKnownHosts,
               MCBrowser, MCPageBody

The modules meet at these points. GeminiRequest's steps on the connection are
TlsConnection's. A read of GeminiRequest that returns bytes or nothing is some
calls of TlsBridge's `Recv`. `ReadChunk` of GeminiRequest hands over what
`GemtextChunk` and its siblings of PageBody take, and `CallbackAborts` is their
"aborted". `CertificateAccepted` is a `nos_tofu_check` of KnownHosts. Browser's
`ShowFetched` and `ShowLocal` are a whole GeminiRequest and a whole PageBody.

### TlsConnection

`tpc` is the place in `nos_tls_connect` or `nos_tls_close`. `sock` is their local
variable and `c` the caller's `nos_tls_ctx_t`; `pool`, `active`, `tcp`, `buffers`
are mTCP's, `ctxs` and `ssls` count what is alive on the heap. Each allocation
has an action for success and one for failure (`NewSession`,
`NewSessionFailed`), each polling loop one for each way out of it, and the
network (`PeerAccepts`, `PeerCloses`, `PeerResets`, `NameServerAnswers`) and the
timer (`Tick`) act between any two of them. `Fail` is the ladder of labels at
the end of `nos_tls_connect`. `StartClose` and `CloseDone` are mTCP's blocking
`close()`, since that is where the socket goes back to the pool.

### GeminiRequest

`nos_gemini_request_stream`, over the connection: every step that touches the
connection is one of TlsConnection's actions, so the two are one state machine.
`pc` is the place in the loop; `plan` is what follows the `nos_tls_close` in
progress, because the code closes first and then sets the error, follows the
redirect or asks for nothing. `trail`, `hops`, `inputs`, `accepted`, `sent`,
`delivered` and `bodyEnd` are history variables: they record what happened and no
guard reads them, except that `inputs` and `delivered` are bounded. The redirect
target and the URL after an input are any URL (the input one of the same host);
a body ends by close_notify or is cut off.

`GeminiFetch` says what a fetch is, without connections: ask, follow, query,
deliver, end.

### TlsBridge

`pc` says which callback polls. The network acts only then, because mTCP
processes packets only when it is polled: `Segment` is a segment in sequence (its
acknowledgement, window, bytes and FIN in the order of `process2`), `DrivePacket`
one packet of `drivePackets2`, `Destroyed` an RST or a packet retransmitted too
often, which empties the ring. `rcvBuf`, `outgoing`, `unacked` and
`remoteWindow` are mTCP's; `outBuf` is wolfSSL's output buffer, which it offers
until a call refuses, and again later. Bytes are numbered in the order they are
sent; `inBuf` and `queued` record what each side got. A refused `send()` is
`SendRefused`: mTCP returns 0 when its ring is full, never
`TCP_RC_NO_XMIT_BUFFERS`, so the branch of line 254 is not reached.

`TlsStream` is what wolfSSL may expect: reads return the next bytes, an end is
reported behind the last byte unless the connection broke, a write takes what it
says or nothing.

### Gemtext, Config and PageBody

`Gemtext` is `nos_gemtext_parse_line` on sequences of characters, with a table of
the marks a line can start with. `Config` is `nos_config_load` on what `fgets`
makes of a file. `PageBody` reads one body, in chunks cut anywhere, into one of
four sinks: the renderer for a fetched page and for a local file (which end
differently when a line is refused), the raw printing of any other type, and the
buffer of `nos_gemini_request`. `st` is `nos_render_stream_t` with its context
and the screen: rows of text with the kind of line they belong to, and pauses.
The functions keep the source's names (`print_wrapped`, `render_parsed`,
`nos_render_stream_feed`); a character is fed at a time. The properties do not
follow the renderer: they split the body at its LFs, count its fences, and say
what each line means.

### KnownHosts

The file is a sequence of lines, a line what `sscanf` and the comparison see of
it, with a flag for its newline. `Lookup` is the first match, `Updated` the copy
with one entry replaced. Every file operation of the update is a step
(`CopyToTmp`, `RemoveOld`, `RenameTmp`), and three faults come between and in
them: `"crash"`, the machine stops and the closed files are left; `"denied"`,
DOS refuses to open a file for writing, to remove or to rename it, so that
`rename` may fail with the old file or, in the `Gap`, without it; `"diskfull"`,
writing stops at any byte. What a full disk leaves ends with a `Torn` line, and
text written behind an unfinished line runs into it (`Merged`): a fingerprint
becomes garbled, a missing token is filled in, and a first token that grows may
become another host's key. Opening and reading a file that is there is assumed
to succeed.

`known` and `granted` are history variables: the certificate each host was last
trusted with since the store was last lost, and the fingerprints that the first
file names or the user said yes to. No guard reads them.

`TrustStore` is the table a user believes in: a fingerprint per host. `Save`
changes one entry; a check that is interrupted leaves the table alone, except
that one which fails behind the user's consent may `Lose` it as a whole. That is
what the code promises: a crash in the gap leaves no store, and the next update
overwrites the copy.

### Url and Browser

`Url` is parsing and resolution on sequences of segments; it follows the code in
dropping the slash at the end, in appending a query as it is, and in refusing a
port that is followed by a path. `Browser` is `main`'s loop: one action shows the
page (`ShowLocal`, `ShowFetched`, or a failure), one action runs a command.
`links` is `main`'s array, which may hold anything before the first page
(`Garbage`) and which a local file that cannot be opened leaves as it was.
`shown`, `saved`, `left` and `dropped` are history variables. A request is a
single step with the result that GeminiRequest allows: the page behind the
redirects, or nothing.

## 3. The runs

| Run | Shows |
|---|---|
| `connection` | No failure path leaks, frees twice, or frees out of order; a socket on the free list is quiet; connect and close return. |
| `request` | A whole call: trust before every request, bounded redirects, one page, results that agree with the exchange, everything released, GeminiFetch implemented, and it returns. |
| `bridge` | The IO callbacks implement TlsStream: no byte lost, repeated or reordered, no early end, nothing taken by a refused call; rings and window keep their bounds; every callback returns. |
| `body` | The cuts between chunks do not matter: the page is a function of what arrived. Its links, blocks, words, rows and pauses are those of its lines; a page stops only for a line that does not fit; the buffer keeps what arrived. |
| `known_hosts` | With refused operations and crashes the file implements TrustStore, and what a host was trusted with is remembered; only in the gap between remove and rename may the table be lost, and then all of it. |
| `known_hosts_faults` | With a disk that fills up anywhere, refused operations, a crash and edited files: still no certificate that nobody granted, no trust without a reason, no change without consent. |
| `browser` | Links belong to the page, dot segments lead where they say, the history retraces its steps, arrays keep their bounds. |
| `redirect_limit` | *Fails*: `err.redirect_limit` is never seen set (gemini.c:308; gemini.h:17). |
| `whole_body` | *Fails*: a body cut off by a reset or a timeout is a success (gemini.c:268; gemini.h:25). |
| `known_hosts_edited` | *Fails*: behind an unfinished last line the accepted host is forgotten (tofu.c:202; PLAN.md:172-175). |
| `follow_link` | *Fails*: after a redirect, links resolve against the URL before it (main.c:299; PLAN.md:191). |
| `bookmark` | *Fails*: the bookmark of a page on another port does not parse (url.c:136; PLAN.md:87). |

**Bounds.** Two hosts are enough to confuse one with another; three URLs add one
that is too long and one that shares a host. One socket is the program's own
number (`TCP_MAX_SOCKETS 1`). Timeouts of one or two ticks distinguish "before"
from "at the deadline", which is all the code does. `MaxRedirects` is 2 (5 in
`redirect_limit`), so a chain can be below, at and beyond the limit; `MaxInputs`
1 puts an input between redirects; `Word` 4 with bodies up to 4 bytes makes the
byte counter wrap. Statuses are codes at the ends
of the branches of the dispatch (9 and 70 are outside of all). gemini.h:34 calls
the stream callback "status 20 only"; the code streams any 2x, so 20 and 29 are
both there. The store starts from files with duplicates, comments, another
algorithm, another host's entries, and (edited) an unfinished last line. Two
hosts are the one being saved and the one that must not change; with up to four
lines an update comes before, at and after the line concerned, duplicates
included, and with two crashes the second meets the files of the first. A full
disk leaves many more files, so there new entries are accepted up to two lines,
a torn one and the one that runs into it, and one crash comes. `NOS_NAV_MAX` 2
with three visits fills the history, `NOS_MAX_LINKS` 2 cuts a page of three
links, `Word` 65536 with the number 65538 wraps `atoi`; five segments are as many
as a link makes, dots included, and one less than a URL that is typed.

`bridge` has rings, windows and packets of at most two and streams of three and
four bytes: each ring is empty, partly filled and full, a window opens and
closes, a write needs several packets, and an end comes with bytes, behind them
or instead of them. `body` scales the buffers down, not the logic: lines of 9, URLs
of 3, words of 4, rows of 6, one link, chunks of up to 3. Its bodies are eleven
pieces (every kind of line, CR, NUL, a URL and a word at and beyond their
buffers), alone, in pairs with and without a last LF, and as pairs inside and
behind a preformatted block; so every line is cut at every byte, a fence too.
`Word` 16 lets a PAGE_LINES of 18 wrap to 2. Buffers of 5 and 12 are too small
and just large enough for most bodies, with 12 + `MaxChunk` one below the sum
that wraps; with 15 it does wrap, and `BufferKeepsBody` says nothing.

`CHECK_DEADLOCK FALSE` is given for the browser, which ends at `q`, and for
`body`, which ends with the body.

**Fairness.** Stated for `connection`, `request` and `bridge`. The timer interrupt
comes (`WF(Tick)`); a polling loop that can leave does, since it tests its exits
on every round (`WF(Establish)`, `WF(CloseDone)`); between calls into wolfSSL the
program runs on, and such a call returns because `nos_tls_recv` gives up after 15
seconds, as does the user's prompt when answered or closed (`WF(Exchange)`).
In `bridge` the timer comes, a poll that can leave does, and a send polls once
and returns (`WF(Tick)`, `WF(Polled)`, `WF(SendReturns)`).
Nothing is assumed of the name server, the peer or the network: they may stay
silent for ever. Servers' inputs and bodies are finite by the bounds; without
them `RequestReturns` would not hold, since the code limits neither.

## 4. What is proved

For every set of hosts, URLs and sockets, every timeout and every limit, from
the named assumptions on the constants only:

* **TlsConnectionProofs.** The inductive invariant `ConnInv` adds to the type
  invariant `HoldsWhat`: what `sock` and `c` hold at each place in the code.
  Without it `ResourcesAccounted` is not inductive, because a failure label
  frees by position, not by looking. From it: types, `ResourcesAccounted`,
  `FreeSocketsQuiet`, `NothingHeldBetweenCalls`, `SocketOutlivesSession`.
* **GeminiRequestProofs.** `ConnPart` shows every step is a step of the
  connection, so `ConnInv` carries over; it is a lemma, since it holds by the way
  the two are composed. `ReqInv`
  ties `pc` and `plan` to the connection (`ConnectionFits`), the connection to
  `current` and its accepted certificate (`HostFits`), the request to the trail
  (`SentFits`), and counts: every request is paid for by the call, a redirect
  or an input (`RequestsFit`, with the request `Unsent` and the one `Owed`).
  From it: `TypeOK`, `IdleHoldsNothing`, `RedirectsBounded`,
  `SendsOnlyToTrustedHost`, `OnePagePerCall`, and `ImplementsFetch` step by step.
* `ResultInv`, in the same module: until the call returns `err` is as it was
  reset and `*body_len` is 0, unless the exchange has succeeded; `total` is the
  remainder of what was delivered. The last part needs that wrapping after each
  addition is wrapping once (`CountsModulo`), which the lemmas before it derive
  from the remainder's definition. From it: `ResultAgrees`.
* **TlsBridgeProofs.** `BridgeInv` adds `RingFits` to the type invariant: the
  receive ring holds exactly the bytes between those returned and those
  acknowledged to the peer, and is empty once the socket is closed. Without it
  neither the type of the ring nor `Deliver` of TlsStream can be shown. From it:
  `BridgeTypeOK`, and `ImplementsStream` step by step, for every size of ring,
  window and packet.
* **KnownHostsProofs.** `ConsentInv` (whoever saves was told yes) gives
  `TrustedForAReason` and `StoreNeedsConsent`, with all faults and any file.
  `GrantInv` follows fingerprints: each one in the store and in the copy was
  granted or is garbled, because neither tearing a line nor writing behind a
  torn one makes a fingerprint (`LinesWritten`, `CutText`, `AppendedText`). With
  all faults it gives `TypeOK` and `CertificateWasGranted`, if the first store
  is a text file (`StoresAreText`).
* Its third part is about what the file says. `Lookup` is characterised by the
  first matching line, whose existence is a minimum of a set of numbers, so that
  no induction is needed; `AppendedFile` and `UpdatedFile` say what it finds in a
  file that was appended to or copied with one entry replaced. `FileInv` then
  says that nothing found before the prompt changed until it is used, that the
  copy says what the store says but for one entry, and that in the gap the copy
  says what is known. Assumed: `StoresFinished` (every line of the first store
  ends with a newline, or `known_hosts_edited` is the counterexample) and
  `DiskHasRoom` (no `"diskfull"`; crashes and refused operations may come
  anywhere). From it: `AcceptedIsRemembered`, and `ImplementsTrustStore` step by
  step, a failure being `Rejected`, `Interrupted` or, in the gap, `Lose`.
* **FoldLemmas.** The loops of the code are folds in the models, and what
  `FoldLeft` does is defined by recursion over sets of indices. The lemmas turn
  such a recursion into a function `f` from the steps of the loop to its states,
  `f[0]` the start and `f[k]` the step from `f[k - 1]`, by well-founded induction
  over the indices. An operator cannot be a parameter of a lemma the provers use,
  so every fold has a short lemma of its own (`FeedLoop`, `WordLoop`, ...), and
  `LoopInduction` is the induction along `f`. `nos_config_load` is the first loop
  proved about: it always leaves a PAGE_LINES that is an unsigned int, and a HOME
  that is a text.
* **BrowserProofs.** While nothing was dropped, the history is what was left and
  not returned to; so `b` goes back to the page left last (`BackRetraces`).
  `LinksOfPage` holds for every web. `TypeOK` says that every page visited,
  stacked, bookmarked or saved is a URL; it rests on the types of
  `nos_url_parse` and `nos_url_resolve`, with the loop over the segments of a
  path, and on `WorldAssumption` (texts, pages and links are made of the parts
  that a text has).
* **PageBodyProofs.** Every operator of the renderer maps `Pages(page_lines)` to
  itself, the well-formed states whose rows fit; that is `BodyInv`, and gives
  `BodyTypeOK` and `RowsFit`. A run over two texts is a run over both
  (`FeedConcat`), so the state is `Whole` of what arrived, whatever the cuts
  (`CutsDoNotMatter`). `BufferInv` says that one row is kept, which holds
  what arrived, as long as the sum cannot wrap (`BufferKeepsBody`).
* **PageContentProofs.** `Image(s, lines)` says of a renderer that it shows what
  `lines` mean: `in_pre` is the parity of the fences, the links are theirs, the
  text without blanks is theirs, and pauses and `lines_printed` add up to their
  number. `EndLine` keeps it, with the line added (`ImageStep`): for the text,
  words are cut and placed without losing a character (`WordsDense`,
  `PlaceShown`); for the links, their places are counted; for the pager,
  `render_line_break` counts one whether it pauses or not. `Match` adds the line
  in progress, and that the renderer stops exactly at a line that does not fit;
  it goes along the characters of a text (`WholeMatch`). With
  `CutsDoNotMatter` this is `PageMatchesBody`, `ScreenHasAllWords`,
  `StopsOnlyForLongLines` and `PausesEveryPage`; for a body that is printed raw,
  `RawInv` counts its LFs chunk by chunk.

The named assumptions are as weak as the code: sizes of arrays are positive,
`Word` is the width of an unsigned int, a settings file and a body are finite
sequences, PAGE_LINES is a number when `atoi` is given one, a buffer is smaller
than `Word`, and the default settings have their types (`ConfigAssumption`,
`BodyAssumption`, `WorldAssumption`, `NamesAssumption`).

Only model-checked: the liveness properties (`ConnectReturns`, `CloseReturns`,
`RequestReturns` and the callbacks' return), which the prover does not reach,
and `FollowsDots`, which compares the loop of `normalize_path` with the names
that no `..` takes back, sorted by the library.

## 5. What is not modelled

* **Console input as a stream.** Each prompt gets an answer of its own. The rest
  of a line too long for its buffer answers the next prompt in the program; no
  module has that.
* **Characters of a header and of percent-encoding**, and a certificate's digest:
  whether they fit, parse and match, not how.
* **Start-up failures** (no `MTCPCFG`, no stack, HOME that does not parse) end the
  program before the loop. `userAbort`, set by Ctrl-Break, only chooses a message.
* **`nos_nav_peek`, `nos_nav_count`, `nos_render_gemtext`**: nobody calls them.
* **Entropy and `tlstest.cpp`**: a hardware clock, and a manual test.
* **mTCP and wolfSSL** beyond what the callbacks and the connection see:
  vendored. Sequence numbers, retransmission timers and ARP are behind `Segment`,
  `DrivePacket` and `Destroyed`; TLS records are bytes.

## 6. Plan

Done, in this order: TlsConnection and its proofs; GeminiRequest, GeminiFetch and
their proofs; KnownHosts, TrustStore and their proofs; Url and Browser; TlsBridge,
TlsStream and their proofs; Gemtext, Config and PageBody; the proof that results
agree; the lemmas about loops, with the proofs of Browser's types and of all
that `body` checks.

What would add most next:

1. **Session**: Browser, GeminiRequest and KnownHosts on one input stream, for
   prompts answered by the rest of a line (tofu.c:86, ui.c).
2. **Url against RFC 3986**: dot segments are compared with what they mean
   (`FollowsDots`); the slash at the end of a directory and the query remain.
3. **A proof of `FollowsDots`**: the stack that `normalize_path` keeps is the
   list of the names that stay, which needs the sorted sequence of a set of
   places to grow and shrink with it.
