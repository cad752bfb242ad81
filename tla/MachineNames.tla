------------------------------ MODULE MachineNames ------------------------------
(***************************************************************************)
(* The name of a machine, from the device that changes it to every other   *)
(* device of its owner: renameResolved of go/internal/cli/client_cmds.go,  *)
(* RenameOverSession of client/rename.go, the agent's handler and          *)
(* republication (agent/rename.go), its configuration file                 *)
(* (agent/store.go) and the first message of a relay connection            *)
(* (agent/runtime.go).                                                     *)
(*                                                                         *)
(* A device seals a record [name, ts] the agent cannot read, stores it,    *)
(* and delivers it over a session.  The agent rewrites config.json and     *)
(* publishes the record again; the relay lists what was published last on  *)
(* the live connection, and a device shows the newer of the record it has  *)
(* stored and the one that is listed.                                      *)
(*                                                                         *)
(* config.json is read, changed and replaced without a lock by the         *)
(* session handlers of the agent, by mir pair in another process and by a  *)
(* starting agent: reading and replacing are separate steps.               *)
(***************************************************************************)
EXTENDS Directory

CONSTANTS
    Devices,      \* clients of the machine's owner
    MaxRenames,   \* renames each device makes
    MaxClock,     \* the last second
    MaxLinks,     \* connections to the relay
    MaxStarts,    \* restarts of the agent
    Nothing       \* no record, no snapshot

\* The names a machine may be given, the records that say so, and the file.
NamesGiven == {<<"host", 0>>} \cup (Devices \X (1 .. MaxRenames))
NameRecords == [name : NamesGiven, ts : 0 .. MaxClock]
Configs == [name : NamesGiven, paired : BOOLEAN, record : NameRecords]

ASSUME NamesAssumption ==
    /\ MaxRenames \in Nat /\ MaxClock \in Nat /\ MaxLinks \in Nat /\ MaxStarts \in Nat
    /\ Nothing \notin NameRecords \cup Configs
    /\ "pair" \notin Devices /\ "up" \notin Devices

VARIABLES
    config,     \* config.json: [name, paired, record]
    writer,     \* each writer of config.json: [at, read, record]
    stored,     \* the record each device has stored
    told,       \* what each device was told: "none", "local" or "renamed"
    renames,    \* renames each device has begun
    name,       \* the name the running agent announces
    agent,      \* "up", "down" or "starting"
    link,       \* the agent's connection: its number, or 0
    links,      \* connections so far
    opening,    \* serveOnce before its first message: [at, record]
    listed,     \* the record the relay lists, or Nothing
    clock,
    starts,
    paired,     \* mir pair has reported a second owner as paired
    overlapped, \* two rewrites of config.json have overlapped
    applied,    \* the record config.json was last given by a rename
    ackedOn     \* connections made when each device was told

namesVars == <<config, writer, stored, told, renames, name, agent, link, links, opening,
               listed, clock, starts, paired, overlapped, applied, ackedOn>>

Birth == [name |-> <<"host", 0>>, ts |-> 0]
IdleWriter == [at |-> "idle", read |-> Nothing, record |-> Nothing, link |-> 0]

\* Those who rewrite config.json: a session of each device, mir pair, mir up.
Writers == Devices \cup {"pair", "up"}

NamesInit ==
    /\ config = [name |-> <<"host", 0>>, paired |-> FALSE, record |-> Birth]
    /\ writer = [w \in Writers |-> IdleWriter]
    /\ stored = [d \in Devices |-> Birth]
    /\ told = [d \in Devices |-> "none"]
    /\ renames = [d \in Devices |-> 0]
    /\ name = <<"host", 0>>
    /\ agent = "up"
    /\ link = 0 /\ links = 0
    /\ opening = [at |-> "done", record |-> Nothing]
    /\ listed = Nothing
    /\ clock = 0 /\ starts = 0
    /\ paired = FALSE /\ overlapped = FALSE
    /\ applied = Birth
    /\ ackedOn = [d \in Devices |-> 0]

-----------------------------------------------------------------------------
(* config.json.                                                            *)

\* os.ReadFile by a writer that is about to rewrite it.
ReadConfig(w) == writer' = [writer EXCEPT ![w].at = "read", ![w].read = config]

\* save: the file is replaced by what was read, changed.  Another writer that
\* has read and not yet written will undo this change.
Replace(w, c) ==
    /\ config' = c
    /\ overlapped' = (overlapped \/ \E v \in Writers \ {w} : writer[v].read # Nothing)

-----------------------------------------------------------------------------
(* A rename on a device.                                                   *)

\* renameResolved: the record is sealed with the time of day and stored here
\* before anybody is asked.
Seal(d) ==
    /\ writer[d].at = "idle"
    /\ renames[d] < MaxRenames
    /\ LET record == [name |-> <<d, renames[d] + 1>>, ts |-> clock]
       IN /\ stored' = [stored EXCEPT ![d] = record]
          /\ writer' = [writer EXCEPT ![d] = [IdleWriter EXCEPT !.at = "sealed", !.record = record]]
    /\ renames' = [renames EXCEPT ![d] = @ + 1]
    /\ told' = [told EXCEPT ![d] = "none"]
    /\ UNCHANGED <<config, name, agent, link, links, opening, listed, clock, starts, paired,
                   overlapped, applied, ackedOn>>

\* The machine cannot be reached, or does not confirm in time: "renamed locally".
\* What has been delivered goes its way.
GivesUp(d) ==
    /\ writer[d].at # "idle"
    /\ told[d] = "none"
    /\ told' = [told EXCEPT ![d] = "local"]
    /\ writer' = IF writer[d].at = "sealed" THEN [writer EXCEPT ![d] = IdleWriter] ELSE writer
    /\ UNCHANGED <<config, stored, renames, name, agent, link, links, opening, listed, clock,
                   starts, paired, overlapped, applied, ackedOn>>

\* renameHandler: RenameMachine reads the file, ...
HandlerReads(d) ==
    /\ writer[d].at = "sealed"
    /\ agent = "up"
    /\ ReadConfig(d)
    /\ UNCHANGED <<config, stored, told, renames, name, agent, link, links, opening, listed,
                   clock, starts, paired, overlapped, applied, ackedOn>>

\* Mutant: the record is not stored.
HandlerWritesNameOnly(d) ==
    /\ writer[d].at = "read"
    /\ Replace(d, [writer[d].read EXCEPT !.name = writer[d].record.name])
    /\ applied' = writer[d].record
    /\ name' = writer[d].record.name
    /\ writer' = [writer EXCEPT ![d].at = IF link = 0 THEN "acking" ELSE "looked_up",
                                ![d].read = Nothing, ![d].link = link]
    /\ UNCHANGED <<stored, told, renames, agent, link, links, opening, listed, clock, starts,
                   paired, ackedOn>>

\* ... replaces it, and the agent announces the new name; the connection to
\* publish on is looked up.
HandlerWrites(d) ==
    /\ writer[d].at = "read"
    /\ Replace(d, [writer[d].read EXCEPT !.name = writer[d].record.name,
                                         !.record = writer[d].record])
    /\ applied' = writer[d].record
    /\ name' = writer[d].record.name
    /\ writer' = [writer EXCEPT ![d].at = IF link = 0 THEN "acking" ELSE "looked_up",
                                ![d].read = Nothing, ![d].link = link]
    /\ UNCHANGED <<stored, told, renames, agent, link, links, opening, listed, clock, starts,
                   paired, ackedOn>>

\* The file cannot be read or replaced: the handler says nothing.
HandlerFails(d) ==
    /\ writer[d].at = "read"
    /\ writer' = [writer EXCEPT ![d] = IdleWriter]
    /\ told' = [told EXCEPT ![d] = IF @ = "none" THEN "local" ELSE @]
    /\ UNCHANGED <<config, stored, renames, name, agent, link, links, opening, listed, clock,
                   starts, paired, overlapped, applied, ackedOn>>

\* republishRegistry: the record is read from the file again and then sent; on
\* a connection that has ended meanwhile it is lost.
RepublishReads(d) ==
    /\ writer[d].at = "looked_up"
    /\ writer' = [writer EXCEPT ![d].at = "republish", ![d].record = config.record]
    /\ UNCHANGED <<config, stored, told, renames, name, agent, link, links, opening, listed,
                   clock, starts, paired, overlapped, applied, ackedOn>>

Republishes(d) ==
    /\ writer[d].at = "republish"
    /\ listed' = IF link = writer[d].link THEN writer[d].record ELSE listed
    /\ writer' = [writer EXCEPT ![d].at = "acking"]
    /\ UNCHANGED <<config, stored, told, renames, name, agent, link, links, opening, clock,
                   starts, paired, overlapped, applied, ackedOn>>

\* The fresh HELLO; the device may have stopped waiting for it.
Acks(d) ==
    /\ writer[d].at = "acking"
    /\ told' = [told EXCEPT ![d] = IF @ = "none" THEN "renamed" ELSE @]
    /\ ackedOn' = [ackedOn EXCEPT ![d] = links]
    /\ writer' = [writer EXCEPT ![d] = IdleWriter]
    /\ UNCHANGED <<config, stored, renames, name, agent, link, links, opening, listed, clock,
                   starts, paired, overlapped, applied>>

-----------------------------------------------------------------------------
(* The agent's connection to the relay.                                    *)

\* serveOnce: a new registration lists nothing yet, and can be published on.
Connects ==
    /\ agent = "up" /\ link = 0 /\ links < MaxLinks
    /\ links' = links + 1
    /\ link' = links + 1
    /\ opening' = [at |-> "read", record |-> Nothing]
    /\ UNCHANGED <<config, writer, stored, told, renames, name, agent, listed, clock, starts,
                   paired, overlapped, applied, ackedOn>>

ServeReads ==
    /\ link # 0 /\ opening.at = "read"
    /\ opening' = [at |-> "publish", record |-> config.record]
    /\ UNCHANGED <<config, writer, stored, told, renames, name, agent, link, links, listed,
                   clock, starts, paired, overlapped, applied, ackedOn>>

ServePublishes ==
    /\ link # 0 /\ opening.at = "publish"
    /\ listed' = opening.record
    /\ opening' = [at |-> "done", record |-> Nothing]
    /\ UNCHANGED <<config, writer, stored, told, renames, name, agent, link, links, clock,
                   starts, paired, overlapped, applied, ackedOn>>

Hangup == /\ link' = 0
          /\ listed' = Nothing
          /\ opening' = [at |-> "done", record |-> Nothing]

Disconnects ==
    /\ link # 0
    /\ Hangup
    /\ UNCHANGED <<config, writer, stored, told, renames, name, agent, links, clock, starts,
                   paired, overlapped, applied, ackedOn>>

-----------------------------------------------------------------------------
(* Other writers, and time.                                                *)

\* mir pair in another process, perhaps not for the first time: LoadOrInit gives
\* the machine its host name again, ...
PairBegins ==
    /\ writer["pair"].at \in {"idle", "loaded"} /\ ~paired
    /\ writer' = [writer EXCEPT !["pair"].at = "loading", !["pair"].read = config]
    /\ UNCHANGED <<config, stored, told, renames, name, agent, link, links, opening, listed,
                   clock, starts, paired, overlapped, applied, ackedOn>>

PairLoads ==
    /\ writer["pair"].at = "loading"
    /\ Replace("pair", [writer["pair"].read EXCEPT !.name = <<"host", 0>>])
    /\ writer' = [writer EXCEPT !["pair"] = [IdleWriter EXCEPT !.at = "loaded"]]
    /\ UNCHANGED <<stored, told, renames, name, agent, link, links, opening, listed, clock,
                   starts, paired, applied, ackedOn>>

\* ... and ProvisionOwner pins a second owner.
PairReads ==
    /\ writer["pair"].at = "loaded" /\ ~paired
    /\ ReadConfig("pair")
    /\ UNCHANGED <<config, stored, told, renames, name, agent, link, links, opening, listed,
                   clock, starts, paired, overlapped, applied, ackedOn>>

PairWrites ==
    /\ writer["pair"].at = "read"
    /\ Replace("pair", [writer["pair"].read EXCEPT !.paired = TRUE])
    /\ paired' = TRUE
    /\ writer' = [writer EXCEPT !["pair"] = IdleWriter]
    /\ UNCHANGED <<stored, told, renames, name, agent, link, links, opening, listed, clock,
                   starts, applied, ackedOn>>

\* The agent stops: its sessions and its connection end where they are.
Stops ==
    /\ agent = "up" /\ starts < MaxStarts
    /\ agent' = "down"
    /\ starts' = starts + 1
    /\ Hangup
    /\ writer' = [w \in Writers |->
                    IF w \in Devices /\ writer[w].at # "sealed" THEN IdleWriter ELSE writer[w]]
    /\ told' = [d \in Devices |->
                    IF writer[d].at \notin {"idle", "sealed"} /\ told[d] = "none"
                    THEN "local" ELSE told[d]]
    /\ UNCHANGED <<config, stored, renames, name, links, clock, paired, overlapped, applied, ackedOn>>

\* mir up: LoadOrInit gives the machine its host name again and keeps the rest.
StartReads ==
    /\ agent = "down"
    /\ agent' = "starting"
    /\ ReadConfig("up")
    /\ UNCHANGED <<config, stored, told, renames, name, link, links, opening, listed, clock,
                   starts, paired, overlapped, applied, ackedOn>>

\* Mutant: a start forgets the pinned owners.
StartWritesFresh ==
    /\ agent = "starting"
    /\ agent' = "up"
    /\ Replace("up", [name |-> <<"host", 0>>, paired |-> FALSE, record |-> writer["up"].read.record])
    /\ name' = <<"host", 0>>
    /\ writer' = [writer EXCEPT !["up"] = IdleWriter]
    /\ UNCHANGED <<stored, told, renames, link, links, opening, listed, clock, starts, paired,
                   applied, ackedOn>>

StartWrites ==
    /\ agent = "starting"
    /\ agent' = "up"
    /\ Replace("up", [writer["up"].read EXCEPT !.name = <<"host", 0>>])
    /\ name' = <<"host", 0>>
    /\ writer' = [writer EXCEPT !["up"] = IdleWriter]
    /\ UNCHANGED <<stored, told, renames, link, links, opening, listed, clock, starts, paired,
                   applied, ackedOn>>

Second ==
    /\ clock < MaxClock
    /\ clock' = clock + 1
    /\ UNCHANGED <<config, writer, stored, told, renames, name, agent, link, links, opening,
                   listed, starts, paired, overlapped, applied, ackedOn>>

NamesNext ==
    \/ \E d \in Devices : \/ Seal(d) \/ GivesUp(d) \/ HandlerReads(d) \/ HandlerWrites(d) \/ HandlerFails(d)
                          \/ RepublishReads(d) \/ Republishes(d) \/ Acks(d)
    \/ Connects \/ ServeReads \/ ServePublishes \/ Disconnects
    \/ PairBegins \/ PairLoads \/ PairReads \/ PairWrites \/ Stops \/ StartReads \/ StartWrites \/ Second

NamesSpec == NamesInit /\ [][NamesNext]_namesVars

-----------------------------------------------------------------------------
(* Properties.                                                             *)

\* What a device shows: the directory merged with the listing.
Shown(d) == IF listed = Nothing THEN stored[d] ELSE NewerName(stored[d], listed)

\* RenameMachine and republishRegistry: a rename that was acknowledged, and that no
\* other rename followed, is what the relay lists on every later connection,
\* and what every device shows that has not stored a newer name.
RenamePublished ==
    \A d \in Devices :
        /\ told[d] = "renamed" /\ applied = stored[d] /\ ~overlapped
        /\ \A e \in Devices : writer[e].at = "idle"
        /\ link > ackedOn[d] /\ opening.at = "done"
        => /\ listed = stored[d]
           /\ \A e \in Devices : stored[e].ts <= stored[d].ts => Shown(e) = stored[d]

\* ProvisionOwner and RenameMachine: an owner that mir pair reported, and the record
\* of the last rename, are in config.json through any number of restarts, unless
\* two rewrites of the file overlapped.
LostOnlyToOverlap ==
    ~overlapped => /\ paired => config.paired
                   /\ config.record = applied

\* RenameMachine, ProvisionOwner and LoadOrInit: the two together.
RenameLasts == RenamePublished /\ LostOnlyToOverlap

\* RenameOverSession: the acknowledgement says that the rename was applied and
\* published; while the connection lasts, with no other rename on its way, the
\* relay lists it.
AckedIsListed ==
    \A d \in Devices :
        /\ told[d] = "renamed" /\ ~overlapped /\ applied = stored[d]
        /\ \A e \in Devices : writer[e].at = "idle"
        /\ link # 0 /\ opening.at = "done"
        => listed = stored[d]
=============================================================================
