------------------------------ MODULE Autopilot ------------------------------
(***************************************************************************)
(* The background agent's trigger: refresh/agent.rs and the Tauri commands *)
(* set_background_agent and agent_status.  A systemd user timer where the  *)
(* user manager runs, an XDG autostart entry otherwise; what the next boot *)
(* offers may differ from what the trigger was installed with.             *)
(*                                                                         *)
(* Every file operation and every systemctl call is a step that may fail,  *)
(* the app may die between two of them, and the toggle may ask for the     *)
(* status at any time.                                                     *)
(***************************************************************************)
CONSTANT
    AutoFaults  \* what may fail: "write", "systemctl", and the removal of a file

\* The unit files and the autostart entry.
Units == {"service", "timer", "desktop"}

ASSUME AutoFaultsAssumption == AutoFaults \subseteq {"write", "systemctl"} \cup Units

VARIABLES
    mechanism,  \* detect_mechanism() in this login session
    unit,       \* the files: absent, cut short by a failed write, or whole
    enabled,    \* the timer's link in timers.target.wants
    ticking,    \* the user manager runs the timer in this session
    agents,     \* the modes of the agent processes that are running
    at,         \* where set_background_agent is
    switched,   \* what the last set_background_agent did, if it returned Ok
    told        \* the last answer of `status`: what the toggle shows

autoVars == <<mechanism, unit, enabled, ticking, agents, at, switched, told>>

Mechanism == {"systemd", "autostart"}

Steps == {"idle", "writeService", "writeTimer", "reload", "enable",
          "writeDesktop", "disable", "removeTimer", "removeService",
          "checkTimer", "removeDesktop", "reportOn", "reportOff"}

AutoTypeOK ==
    /\ mechanism \in Mechanism
    /\ unit \in [Units -> {"absent", "short", "whole"}]
    /\ enabled \in BOOLEAN /\ ticking \in BOOLEAN
    /\ agents \subseteq {"run", "loop"}
    /\ at \in Steps
    /\ switched \in Mechanism \cup {"off", "unknown"}
    /\ told \in {"on", "off", "mute", "unknown"}

AutoInit ==
    /\ mechanism \in Mechanism
    /\ unit = [u \in Units |-> "absent"]
    /\ enabled = FALSE /\ ticking = FALSE
    /\ agents = {}
    /\ at = "idle"
    /\ switched = "unknown"
    /\ told = "unknown"

\* Mutant: the link alone counts.
TimerIsEnabledByLink ==
    {word \in {"on", "off", "mute"} :
        \/ word = "on"   /\ enabled
        \/ word = "off"  /\ ~enabled
        \/ word = "mute" /\ "systemctl" \in AutoFaults}

\* timer_is_enabled: the word `systemctl is-enabled` prints.  A timer cut short is
\* enabled by its link, or masked when nothing is left of it.  If systemctl cannot
\* run or prints nothing, that is read as an "off" which nobody said: "mute".
TimerIsEnabled ==
    {word \in {"on", "off", "mute"} :
        \/ word = "on"   /\ enabled /\ unit["timer"] # "absent"
        \/ word = "off"  /\ ~(enabled /\ unit["timer"] = "whole")
        \/ word = "mute" /\ "systemctl" \in AutoFaults}

EntryExists == {IF unit["desktop"] = "absent" THEN "off" ELSE "on"}

\* What `status` may answer.  It does not look at what the other mechanism left.
Status == IF mechanism = "systemd" THEN TimerIsEnabled ELSE EntryExists

\* The mode each trigger starts the agent in: service_unit, autostart_desktop.
Mode(u) == IF u = "desktop" THEN "loop" ELSE "run"

-----------------------------------------------------------------------------
(* install *)

\* The call begins: until one returns Ok again, no switch stands.
Turn(l) == at = "idle" /\ at' = l /\ switched' = "unknown"

InstallStart ==
    /\ Turn(IF mechanism = "systemd" THEN "writeService" ELSE "writeDesktop")
    /\ UNCHANGED <<mechanism, unit, enabled, ticking, agents, told>>

\* Mutant: the result of a write is not looked at.
WriteUnchecked(u, l, next) ==
    /\ at = l
    /\ \E content \in {"whole"} \cup (IF "write" \in AutoFaults
                                      THEN {unit[u], "short"} ELSE {}) :
          /\ unit' = [unit EXCEPT ![u] = content]
          /\ at' = next
    /\ UNCHANGED <<mechanism, enabled, ticking, agents, switched, told>>

\* fs::write truncates the file first: a failure leaves it as it was, or short.
Write(u, l, next) ==
    /\ at = l
    /\ \/ unit' = [unit EXCEPT ![u] = "whole"] /\ at' = next
       \/ /\ "write" \in AutoFaults
          /\ \E content \in {unit[u], "short"} : unit' = [unit EXCEPT ![u] = content]
          /\ at' = "idle"
    /\ UNCHANGED <<mechanism, enabled, ticking, agents, switched, told>>

Reload ==
    /\ at = "reload"
    /\ \/ at' = "enable"
       \/ "systemctl" \in AutoFaults /\ at' = "idle"
    /\ UNCHANGED <<mechanism, unit, enabled, ticking, agents, switched, told>>

\* enable --now links the timer, then starts it.
Enable ==
    /\ at = "enable"
    /\ \/ enabled' = TRUE /\ ticking' = TRUE /\ at' = "reportOn"
       \/ /\ "systemctl" \in AutoFaults
          /\ enabled' \in {enabled, TRUE} /\ ticking' = ticking
          /\ at' = "idle"
    /\ UNCHANGED <<mechanism, unit, agents, switched, told>>

-----------------------------------------------------------------------------
(* uninstall: both mechanisms, whichever of them installed it *)

UninstallStart ==
    /\ Turn(IF unit["timer"] = "absent" THEN "removeTimer" ELSE "disable")
    /\ UNCHANGED <<mechanism, unit, enabled, ticking, agents, told>>

\* disable --now, best-effort.
Disable ==
    /\ at = "disable"
    /\ \/ enabled' = FALSE /\ ticking' = FALSE
       \/ "systemctl" \in AutoFaults /\ UNCHANGED <<enabled, ticking>>
    /\ at' = "removeTimer"
    /\ UNCHANGED <<mechanism, unit, agents, switched, told>>

\* remove_file, its result dropped.
RemoveFile(u, l, next) ==
    /\ at = l
    /\ \/ unit' = [unit EXCEPT ![u] = "absent"]
       \/ u \in AutoFaults /\ unit' = unit
    /\ at' = next
    /\ UNCHANGED <<mechanism, enabled, ticking, agents, switched, told>>

\* Mutant: nobody looks whether the timer is really gone.
CheckTimerTrusting ==
    /\ at = "checkTimer"
    /\ at' = "removeDesktop"
    /\ UNCHANGED <<mechanism, unit, enabled, ticking, agents, switched, told>>

\* A timer that could not be removed is an error, and the entry is left alone.
CheckTimer ==
    /\ at = "checkTimer"
    /\ at' = IF unit["timer"] = "absent" THEN "removeDesktop" ELSE "idle"
    /\ UNCHANGED <<mechanism, unit, enabled, ticking, agents, switched, told>>

-----------------------------------------------------------------------------

\* Both end by asking for the status, and return it: Ok, whatever it says.
Report ==
    /\ at \in {"reportOn", "reportOff"}
    /\ told' \in Status
    /\ switched' = IF at = "reportOn" THEN mechanism ELSE "off"
    /\ at' = "idle"
    /\ UNCHANGED <<mechanism, unit, enabled, ticking, agents>>

\* The agent_status command, beside whatever set_background_agent is doing.
AgentStatus ==
    /\ told' \in Status
    /\ UNCHANGED <<mechanism, unit, enabled, ticking, agents, at, switched>>

\* The app dies in the middle of a call.
Die ==
    /\ at # "idle"
    /\ at' = "idle"
    /\ UNCHANGED <<mechanism, unit, enabled, ticking, agents, switched, told>>

\* What a login starts: the timer if it is linked, and the autostart entry
\* whatever runs the session.
StartsAtLogin(m) ==
    {u \in {"timer", "desktop"} :
        IF u = "timer"
        THEN m = "systemd" /\ enabled /\ unit["timer"] = "whole" /\ unit["service"] = "whole"
        ELSE unit["desktop"] = "whole"}

\* A new session: no window has asked for the status yet.
Login(m) ==
    /\ mechanism' = m
    /\ at' = "idle"
    /\ told' = "unknown"
    /\ ticking' = ("timer" \in StartsAtLogin(m))
    /\ agents' = IF "desktop" \in StartsAtLogin(m) THEN {Mode("desktop")} ELSE {}
    /\ UNCHANGED <<unit, enabled, switched>>

\* The timer fires: a one-shot agent, which sweeps once and exits.
TimerFires ==
    /\ ticking /\ unit["service"] = "whole"
    /\ agents' = agents \cup {Mode("service")}
    /\ UNCHANGED <<mechanism, unit, enabled, ticking, at, switched, told>>

RunEnds ==
    /\ "run" \in agents
    /\ agents' = agents \ {"run"}
    /\ UNCHANGED <<mechanism, unit, enabled, ticking, at, switched, told>>

InstallStep ==
    \/ Write("service", "writeService", "writeTimer")
    \/ Write("timer", "writeTimer", "reload")
    \/ Reload \/ Enable
    \/ Write("desktop", "writeDesktop", "reportOn")

UninstallStep ==
    \/ Disable
    \/ RemoveFile("timer", "removeTimer", "removeService")
    \/ RemoveFile("service", "removeService", "checkTimer")
    \/ CheckTimer
    \/ RemoveFile("desktop", "removeDesktop", "reportOff")

AutoNext ==
    \/ InstallStart \/ InstallStep
    \/ UninstallStart \/ UninstallStep
    \/ Report \/ AgentStatus \/ Die
    \/ \E m \in Mechanism : Login(m)
    \/ TimerFires \/ RunEnds

AutoSpec == AutoInit /\ [][AutoNext]_autoVars

-----------------------------------------------------------------------------
(* Properties *)

\* Once set_background_agent has turned the agent on and returned Ok, the trigger of
\* that session's mechanism is complete: every further login under it starts the
\* agent, whatever earlier calls left half written and whatever the status said.
OnMeansTriggered == \A m \in Mechanism : switched = m => StartsAtLogin(m) # {}

\* Once it has turned the agent off and returned Ok, no later login starts one, under
\* either mechanism: not the one in use now, nor one the trigger was once installed
\* with.  The removal of the autostart entry is the only one whose failure nobody
\* notices.
OffMeansNoTrigger ==
    switched = "off" /\ "desktop" \notin AutoFaults =>
        \A m \in Mechanism : StartsAtLogin(m) = {}

\* What the toggle shows, whenever it asks, agrees with the last call that returned
\* Ok: no "on" once the agent was turned off, and under the mechanism it was turned
\* on with no "off" but the one systemctl never said.
ToggleIsRight ==
    /\ switched = "off" /\ "desktop" \notin AutoFaults => told # "on"
    /\ switched = mechanism => told # "off"

\* Violated.  The flag is "whether the trigger is currently installed/enabled": when no
\* call is on its way the toggle shows "on", asked for it, exactly while the next login
\* would start the agent.  "Off" it explains as refreshing only while the app is open.
ShownIsInstalled ==
    [][at = "idle" /\ told' # told /\ told' \in {"on", "off"} =>
          (told' = "on" <=> StartsAtLogin(mechanism) # {})]_autoVars

=============================================================================
