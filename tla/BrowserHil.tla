------------------------------ MODULE BrowserHil ------------------------------
(***************************************************************************)
(* The browser in a sandbox and the human who takes it over                *)
(* (core/src/browser/chromium.rs, cli/src/cmd/browser.rs,                  *)
(* tauri/src/ipc/sandbox.rs, src/pages/SandboxPage.tsx,                    *)
(* src/components/VmCard.tsx, the monitor of main.rs, the HIL handlers of  *)
(* bridge_server/server.rs and assets/v2/mcp/hil-skill.mjs).               *)
(*                                                                         *)
(* A takeover is a chain of commands run in the VM one by one, its return  *)
(* another; nothing serialises two chains.  Agents wait at the bridge, the *)
(* page shows one panel, and the monitor reopens it while it finds noVNC   *)
(* running.  The bridge's lock and the slot of the pending request are in  *)
(* BridgeServer; the URL that the panel opens is left out.                 *)
(***************************************************************************)
EXTENDS Naturals, Sequences, FiniteSets

CONSTANTS
  Boxes,     \* sandboxed instances, numbers: the VM list is in this order
  Watched,   \* those installed with a browser, which the monitor probes
  Agents,    \* hil-skill processes, each with one request
  MaxChains, \* bound: takeovers and returns begun
  MaxTurns   \* bound: VMs started or stopped and browsers that crash

ASSUME HilAssumption ==
  /\ Boxes \subseteq Nat \ {0} /\ Watched \subseteq Boxes
  /\ MaxChains \in Nat /\ MaxTurns \in Nat

VARIABLES
  runs,      \* runs[b]: the VM of b is running
  equipped,  \* equipped[b]: chromium and noVNC are installed in it
  procs,     \* procs[b]: the browser's processes in it
  chain,     \* chain[c]: a takeover or a return
  here,      \* the sandbox page is mounted
  listed,    \* the VMs it lists as running and managed
  panel,     \* hilInstance: the instance taken over, 0 if none
  busy,      \* browserLoading
  seen,      \* what the monitor has read and not yet told, 0 if nothing
  monitor,   \* the monitor's task runs
  request,   \* request[a]: the request of agent a
  line,      \* the agents whose notified() waits, first come first served
  stored,    \* the Notify's stored permit
  turns,     \* bound
  clicks     \* history: "Continue Auto"s that reached the bridge

hil == <<runs, equipped, procs, chain, here, listed, panel, busy, seen, monitor, request, line, stored, turns, clicks>>
machines == <<runs, equipped, turns>>
watch == <<seen, monitor>>
page == <<here, listed, panel, busy>>
bridge == <<request, line, stored, clicks>>

Chains == 1..MaxChains
NoChain == [kind |-> "", of |-> 0, by |-> "", at |-> 0, state |-> "unused", clean |-> TRUE]
Display == {"Xvfb", "x11vnc", "chromium"}
Takeover == Display \union {"websockify"}
First(s) == CHOOSE b \in s : \A x \in s : b <= x

HilInit ==
  /\ runs \in [Boxes -> BOOLEAN]
  /\ equipped \in [Boxes -> BOOLEAN]
  /\ procs = [b \in Boxes |-> {}]
  /\ chain = [c \in Chains |-> NoChain]
  /\ here = FALSE /\ listed = {} /\ panel = 0 /\ busy = FALSE /\ seen = 0 /\ monitor = TRUE
  /\ request = [a \in Agents |-> [at |-> "none", clicked |-> FALSE]]
  /\ line = <<>> /\ stored = FALSE
  /\ turns = 0 /\ clicks = 0

-----------------------------------------------------------------------------
(* The commands of start_interactive and of resume_headless.                *)
Kill(ps) == [kill |-> ps, run |-> ""]
Launch(p) == [kill |-> {}, run |-> p]

\* `pkill -f chromium` finds the headless one as well.
Script(kind) ==
  IF kind = "takeover"
  THEN <<Kill({"headless"}), Launch("Xvfb"), Launch("x11vnc"), Launch("websockify"), Launch("chromium")>>
  ELSE <<Kill({"chromium", "headless"}), Kill({"x11vnc"}), Kill({"websockify"}), Kill({"Xvfb"}),
         Launch("headless")>>

\* Clients of the display end with it.
Settled(ps) == IF "Xvfb" \in ps THEN ps ELSE ps \ Display

\* What a daemon is started into: it stays if it is installed and has its display.
Joined(b, p) ==
  Settled(IF equipped[b] THEN procs[b] \union {p} ELSE procs[b])

\* Whatever else happens on b, the chains under way there have met it.
Met(ch, b, others) ==
  [c \in Chains |-> IF c \in others /\ ch[c].of = b THEN [ch[c] EXCEPT !.clean = FALSE] ELSE ch[c]]

Open(b) == {c \in Chains : chain[c].of = b /\ chain[c].state \in {"running", "through"}}
Free == {c \in Chains : chain[c].state = "unused"}

\* A chain begins; it and those that are under way on b meet each other.
Begin(kind, b, by) ==
  /\ Free # {}
  /\ chain' = [Met(chain, b, Open(b)) EXCEPT ![First(Free)] =
                 [kind |-> kind, of |-> b, by |-> by, at |-> 1, state |-> "running", clean |-> Open(b) = {}]]

Current(c) == Script(chain[c].kind)[chain[c].at]
Last(c) == chain[c].at = Len(Script(chain[c].kind))
Onward(c) == [chain[c] EXCEPT !.at = @ + 1, !.state = IF Last(c) THEN "through" ELSE "running"]
Answers(c) == chain[c].state \in {"through", "failed"}
Through(c) == chain[c].state = "through"
Over(c) == chain' = [chain EXCEPT ![c] = [NoChain EXCEPT !.kind = chain[c].kind, !.state = "over", !.clean = Through(c)]]

\* pkill: what it answers is not looked at.
KillStep(c) ==
  LET b == chain[c].of  k == Current(c).kill
  IN /\ chain[c].state = "running" /\ k # {}
     /\ \/ /\ runs[b]
           /\ procs' = [procs EXCEPT ![b] = Settled(@ \ k)]
           /\ chain' = [chain EXCEPT ![c] = Onward(c)]
        \/ /\ chain' = [chain EXCEPT ![c] = [Onward(c) EXCEPT !.clean = FALSE]]
           /\ UNCHANGED procs
     /\ UNCHANGED <<machines, page, watch, bridge>>

\* A daemon in the background: sh answers whether it stays or not; and sh may
\* fail, or run into the time limit of an exec with the daemon up.  Every
\* `?` of a chain ends it.
LaunchStep(c) ==
  LET b == chain[c].of  p == Current(c).run
  IN /\ chain[c].state = "running" /\ p # ""
     /\ \/ /\ runs[b]
           /\ procs' = [procs EXCEPT ![b] = Joined(b, p)]
           /\ \/ chain' = [chain EXCEPT ![c] = Onward(c)]
              \/ chain' = [chain EXCEPT ![c].state = "failed"]
        \/ /\ chain' = [chain EXCEPT ![c].state = "failed"]
           /\ UNCHANGED procs
     /\ UNCHANGED <<machines, page, watch, bridge>>

-----------------------------------------------------------------------------
(* The sandbox page.                                                        *)
Managed == {b \in Boxes : runs[b]}

\* Its state goes with it; what it began goes on.
Mount ==
  /\ ~here /\ here' = TRUE /\ listed' = Managed
  /\ UNCHANGED <<machines, procs, chain, panel, busy, watch, bridge>>

Unmount ==
  /\ here /\ here' = FALSE /\ listed' = {} /\ panel' = 0 /\ busy' = FALSE
  /\ chain' = [c \in Chains |-> IF chain[c].by = "page" THEN [chain[c] EXCEPT !.by = "gone"] ELSE chain[c]]
  /\ UNCHANGED <<machines, procs, watch, bridge>>

Refresh ==
  /\ here /\ listed # Managed /\ listed' = Managed
  /\ UNCHANGED <<machines, procs, chain, here, panel, busy, watch, bridge>>

\* A card's button: it installs the browser until one is found there, and is
\* "Browser HIL" from then on.
Button(b, browser) == here /\ b \in listed /\ equipped[b] = browser

\* "Browser HIL", dead while another loads.
Press(b) ==
  /\ Button(b, TRUE) /\ ~busy
  /\ Begin("takeover", b, "page") /\ busy' = TRUE
  /\ UNCHANGED <<machines, procs, here, listed, panel, watch, bridge>>

\* browser_start_interactive answers: the panel opens, or nothing but the
\* console learns of it.
TakenOver(c) ==
  /\ chain[c].kind = "takeover" /\ chain[c].by = "page" /\ Answers(c)
  /\ panel' = IF Through(c) THEN chain[c].of ELSE panel
  /\ busy' = FALSE
  /\ Over(c)
  /\ UNCHANGED <<machines, procs, here, listed, watch, bridge>>

\* "Continue Auto" may be clicked while a click before it is being served.
Continue ==
  /\ here /\ panel # 0
  /\ Begin("return", panel, "page")
  /\ UNCHANGED <<machines, procs, page, watch, bridge>>

\* notify_one: the first in the line, or whoever comes next.
Complete ==
  /\ clicks' = clicks + 1
  /\ IF line = <<>>
     THEN /\ stored' = TRUE /\ line' = line
          /\ request' = [a \in Agents |-> IF request[a].at = "none" THEN request[a]
                                          ELSE [request[a] EXCEPT !.clicked = TRUE]]
     ELSE /\ stored' = stored /\ line' = Tail(line)
          /\ request' = [a \in Agents |->
               [at |-> IF a = Head(line) THEN "ok" ELSE request[a].at, clicked |-> request[a].at # "none"]]

\* Fault variant: the bridge is told though the browser did not come back.
ReturnedAnyway(c) ==
  /\ chain[c].kind = "return" /\ chain[c].by \in {"page", "gone"} /\ Answers(c)
  /\ Complete
  /\ panel' = IF chain[c].by = "page" THEN 0 ELSE panel
  /\ Over(c)
  /\ UNCHANGED <<machines, procs, here, listed, busy, watch>>

\* browser_resume_headless answers: then hil_complete, which may not get
\* through, and the panel closes, whatever it shows by now.
Returned(c) ==
  /\ chain[c].kind = "return" /\ chain[c].by \in {"page", "gone"} /\ Answers(c)
  /\ (Through(c) /\ Complete) \/ UNCHANGED bridge
  /\ panel' = IF chain[c].by = "page" THEN 0 ELSE panel
  /\ Over(c)
  /\ UNCHANGED <<machines, procs, here, listed, busy, watch>>

\* One exec; if its time limit strikes before apk is done, nothing is there.
Installed(b) ==
  /\ equipped' = [equipped EXCEPT ![b] = TRUE]
  /\ chain' = Met(chain, b, Open(b))

Install(b) ==
  /\ Button(b, FALSE) /\ runs[b]
  /\ Installed(b)
  /\ UNCHANGED <<runs, turns, procs, page, watch, bridge>>

\* limactl or wsl, beside whatever clawcli does to the same VM.
Turned(b) ==
  /\ runs' = [runs EXCEPT ![b] = ~@]
  /\ procs' = [procs EXCEPT ![b] = {}]
  /\ chain' = Met(chain, b, Open(b))

\* The card's Start and Stop, and the refresh that follows; `clawcli start`
\* and `stop` change the VM behind the page's back.
Turn(b) ==
  /\ turns < MaxTurns /\ turns' = turns + 1
  /\ Turned(b)
  /\ listed' \in IF here THEN {listed, {x \in Boxes : runs'[x]}} ELSE {listed}
  /\ UNCHANGED <<equipped, here, panel, busy, watch, bridge>>

Crash(b) ==
  /\ turns < MaxTurns /\ turns' = turns + 1
  /\ \E p \in procs[b] : procs' = [procs EXCEPT ![b] = Settled(@ \ {p})]
  /\ chain' = Met(chain, b, Open(b))
  /\ UNCHANGED <<runs, equipped, page, watch, bridge>>

-----------------------------------------------------------------------------
(* clawcli browser hil-start and hil-resume: no panel, no bridge; nobody    *)
(* hears either of a takeover whose page is gone.                           *)
Command(b) ==
  /\ \E kind \in {"takeover", "return"} : Begin(kind, b, "cli")
  /\ UNCHANGED <<machines, procs, page, watch, bridge>>

Unheard(c) ==
  /\ chain[c].by = "cli" \/ (chain[c].by = "gone" /\ chain[c].kind = "takeover")
  /\ Answers(c) /\ Over(c)
  /\ UNCHANGED <<machines, procs, page, watch, bridge>>

-----------------------------------------------------------------------------
(* The monitor.                                                             *)

\* Fault variant: a headless browser is looked for first.
InteractiveLast(b) == runs[b] /\ "websockify" \in procs[b] /\ "headless" \notin procs[b]

\* ChromiumBackend::status: noVNC running wins over a headless browser.
Interactive(b) == runs[b] /\ "websockify" \in procs[b]

Look(b) ==
  /\ monitor /\ b \in Watched /\ seen = 0 /\ Interactive(b)
  /\ seen' = b
  /\ UNCHANGED <<machines, procs, chain, page, monitor, bridge>>

\* hil-required opens the panel, or is lost.
Raise ==
  /\ seen # 0 /\ seen' = 0
  /\ panel' = IF here THEN seen ELSE panel
  /\ UNCHANGED <<machines, procs, chain, here, listed, busy, monitor, bridge>>

\* The health of some instance has changed: refresh_tray blocks on a future
\* inside the monitor's own task (tray.rs:135), which panics and is not
\* started again.
MonitorEnds ==
  /\ monitor /\ seen = 0
  /\ monitor' = FALSE
  /\ UNCHANGED <<machines, procs, chain, page, seen, bridge>>

-----------------------------------------------------------------------------
(* The agents at the bridge.                                                *)

\* The request is announced and waits, unless a permit is there.  The page,
\* if it is up, takes over the first VM it lists.
Ask(a) ==
  /\ request[a].at = "none"
  /\ request' = [request EXCEPT ![a].at = IF stored THEN "ok" ELSE "waiting"]
  /\ line' = IF stored THEN line ELSE Append(line, a)
  /\ stored' = FALSE
  /\ IF here /\ listed # {} /\ Free # {}
     THEN Begin("takeover", First(listed), "page") /\ busy' = TRUE
     ELSE UNCHANGED <<chain, busy>>
  /\ UNCHANGED <<machines, procs, here, listed, panel, watch, clicks>>

\* Ten minutes.
GiveUp(a) ==
  /\ request[a].at = "waiting"
  /\ request' = [request EXCEPT ![a].at = "timeout"]
  /\ line' = SelectSeq(line, LAMBDA x : x # a)
  /\ UNCHANGED <<machines, procs, chain, page, watch, stored, clicks>>

-----------------------------------------------------------------------------
HilNext ==
  \/ \E c \in Chains : KillStep(c) \/ LaunchStep(c) \/ TakenOver(c) \/ Returned(c) \/ Unheard(c)
  \/ Mount \/ Unmount \/ Refresh \/ Continue \/ Raise \/ MonitorEnds
  \/ \E b \in Boxes : Press(b) \/ Install(b) \/ Turn(b) \/ Crash(b) \/ Command(b) \/ Look(b)
  \/ \E a \in Agents : Ask(a) \/ GiveUp(a)

\* Commands answer or run into their time limits; the monitor, as long as it
\* runs, comes round to every instance.
HilFairness ==
  /\ \A c \in Chains : WF_hil(KillStep(c) \/ LaunchStep(c) \/ TakenOver(c) \/ Returned(c) \/ Unheard(c))
  /\ \A b \in Boxes : SF_hil(Look(b))
  /\ WF_hil(Raise)

HilSpec == HilInit /\ [][HilNext]_hil /\ HilFairness

-----------------------------------------------------------------------------
(* Correctness.                                                             *)
HilTypeOK ==
  /\ runs \in [Boxes -> BOOLEAN] /\ equipped \in [Boxes -> BOOLEAN]
  /\ procs \in [Boxes -> SUBSET (Takeover \union {"headless"})]
  /\ here \in BOOLEAN /\ busy \in BOOLEAN /\ monitor \in BOOLEAN /\ stored \in BOOLEAN
  /\ listed \subseteq Boxes /\ panel \in Boxes \union {0} /\ seen \in Boxes \union {0}
  /\ \A c \in Chains : chain[c].at \in 0..6
                       /\ chain[c].state \in {"unused", "running", "through", "failed", "over"}
  /\ \A a \in Agents : request[a].at \in {"none", "waiting", "ok", "timeout"}
  /\ turns \in 0..MaxTurns /\ clicks \in 0..MaxChains

\* A takeover that met nothing has the whole noVNC chain up and no headless
\* browser beside it; a return that met nothing leaves the headless browser
\* alone in the VM, whatever earlier chains left half done
\* (chromium.rs:53-103).
CleanChainsConvert ==
  \A c \in Chains : chain[c].state = "through" /\ chain[c].clean /\ equipped[chain[c].of] =>
    procs[chain[c].of] = IF chain[c].kind = "takeover" THEN Takeover ELSE {"headless"}

\* One click answers at most one agent, and none without a return that came
\* through (SandboxPage.tsx:88-98, server.rs:424-431).
ClicksAreCounted ==
  /\ Cardinality({a \in Agents : request[a].at = "ok"}) + (IF stored THEN 1 ELSE 0) <= clicks
  /\ clicks <= Cardinality({c \in Chains : chain[c].kind = "return" /\ chain[c].state = "over" /\ chain[c].clean})

HilInv == HilTypeOK /\ CleanChainsConvert /\ ClicksAreCounted

\* What chains that failed or crossed leave of noVNC does not stay unseen: as
\* long as the page is up, the monitor opens the panel for it, from which the
\* user can return (main.rs:241-258).  That holds until the first change of
\* any instance's health, which ends the monitor (MonitorEnds): nothing opens
\* the panel from then on.
NoVncUp(b) == runs[b] /\ "websockify" \in procs[b]
LeftoversSurface ==
  \A b \in Watched : NoVncUp(b) /\ here ~> panel = b \/ ~NoVncUp(b) \/ ~here \/ ~monitor

\* "Blocks until user completes intervention (clicks "Continue Auto")"
\* (server.rs:360): an agent is told that its user is done only after a click
\* since it asked.
OkMeansContinued == \A a \in Agents : request[a].at = "ok" => request[a].clicked
=============================================================================
