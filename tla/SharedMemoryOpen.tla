-------------------------- MODULE SharedMemoryOpen --------------------------
(***************************************************************************)
(* open() and close() of SharedMemory (src/handler/shared_memory.cpp) and  *)
(* of SharedFile (src/handler/shared_file.cpp), one step per system call,  *)
(* in the reading process (server_ true) and in the writing process.  What *)
(* they share is three names: the memory or file, and the semaphores "r"   *)
(* and "w".  A name leads to an object or to nothing; an unlinked object   *)
(* lives on for those who have it open.  A process that is killed leaves   *)
(* its names behind, and a new process opens the handler again.            *)
(*                                                                         *)
(* An object is a number: 0 stands for nothing, and n for what the n-th    *)
(* creation of that name produced.  The memory mapped file (file_ true)    *)
(* takes the same steps with remove and open.  Of write(), await_data()    *)
(* and read() only the calls on the semaphores are here.                   *)
(***************************************************************************)
EXTENDS Integers

CONSTANTS
  TOTAL_SLOTS,  \* TOTAL_AMOUNT, the initial value of the semaphore "w"
  MAX_CREATED   \* bound on the number of objects created under a name

ASSUME OpenAssumption == TOTAL_SLOTS \in Nat \ {0} /\ MAX_CREATED \in Nat \ {0}

VARIABLES
  kind,      \* "memory" for SharedMemory, "file" for SharedFile
  name,      \* "memory", "r" and "w" -> the object the name leads to
  created,   \* how many objects were created under each name
  sized,     \* the memory objects that ftruncate gave their size
  value,     \* the values of the semaphore objects, for "r" and "w"
  spc,       \* where the server's open() or close() stands
  shandle,   \* the objects the server has opened
  cpc,       \* where the client's open() or close() stands
  chandle,   \* the objects the client has opened
  paired,    \* the client's open() began after the server's had returned true,
             \* and the server is still the same and open
  lost       \* history: how often a client that had taken a token of each "w" was
             \* killed with it, or posted it to an "r" where the server does not look

openVars == <<kind, name, created, sized, value, spc, shandle, cpc, chandle, paired, lost>>

Names   == {"memory", "r", "w"}
ObjectIds == 0..MAX_CREATED
Nothing == [n \in Names |-> 0]

\* The server is open: before await_data(), inside it, before read(), inside it.
Serving == {"open", "probe", "drain", "read"}
ServerStates == Serving \cup
  {"closed", "create", "truncate", "map", "unlink_r", "unlink_w", "open_r", "open_w",
   "close", "close_memory", "close_r", "close_w"}
ClientStates == {"closed", "map", "open_r", "open_w", "open", "write"}

OpenTypeOK ==
  /\ kind \in {"memory", "file"}
  /\ name \in [Names -> ObjectIds]
  /\ created \in [Names -> ObjectIds]
  /\ sized \in SUBSET (ObjectIds \ {0})
  /\ value \in [{"r", "w"} -> [ObjectIds -> Nat]]
  /\ \A o \in ObjectIds : value["w"][o] <= TOTAL_SLOTS
  /\ spc \in ServerStates
  /\ shandle \in [Names -> ObjectIds]
  /\ cpc \in ClientStates
  /\ chandle \in [Names -> ObjectIds]
  /\ paired \in BOOLEAN
  /\ lost \in [ObjectIds -> Nat]

OpenInit ==
  /\ kind \in {"memory", "file"}
  /\ name = Nothing /\ created = Nothing
  /\ sized = {}
  /\ value = [n \in {"r", "w"} |-> [o \in ObjectIds |-> 0]]
  /\ spc = "closed" /\ shandle = Nothing
  /\ cpc = "closed" /\ chandle = Nothing
  /\ paired = FALSE
  /\ lost = [o \in ObjectIds |-> 0]

-----------------------------------------------------------------------------
(* external: the names in /dev/shm. *)

objects == <<name, created, sized, value>>

Unlink(n) == name' = [name EXCEPT ![n] = 0] /\ UNCHANGED <<created, sized, value>>

\* Open with O_CREAT: the object under the name, or a new one.
OpenOrCreate(n, initial) ==
  \/ /\ name[n] # 0
     /\ shandle' = [shandle EXCEPT ![n] = name[n]]
     /\ UNCHANGED objects
  \/ /\ name[n] = 0
     /\ created[n] < MAX_CREATED
     /\ created' = [created EXCEPT ![n] = created[n] + 1]
     /\ name' = [name EXCEPT ![n] = created'[n]]
     /\ shandle' = [shandle EXCEPT ![n] = created'[n]]
     /\ value' = IF n = "memory" THEN value
                 ELSE [value EXCEPT ![n][created'[n]] = initial]
     /\ UNCHANGED sized

\* Open without O_CREAT.
OpenExisting(n) == name[n] # 0 /\ chandle' = [chandle EXCEPT ![n] = name[n]]

\* A step of the server, and one of the client.
ServerGoes(from, to) ==
  /\ spc = from /\ spc' = to
  /\ paired' = (paired /\ (from \in Serving => to \in Serving))
  /\ UNCHANGED <<kind, cpc, chandle, lost>>

ServerPasses(from, to) == ServerGoes(from, to) /\ UNCHANGED <<objects, shandle>>
ServerUnlinks(from, n, to) == ServerGoes(from, to) /\ Unlink(n) /\ UNCHANGED shandle

ClientGoes(from, to) ==
  /\ cpc = from /\ cpc' = to
  /\ UNCHANGED <<kind, name, created, sized, spc, shandle>>

ClientOpens(from, to) == ClientGoes(from, to) /\ UNCHANGED <<value, lost>>

-----------------------------------------------------------------------------
(* open() with server_ *)

\* Mutant: open() does not check whether the memory is already open.
ServerUnlinkMemoryAgain ==
  /\ kind = "memory" /\ created["memory"] < MAX_CREATED
  /\ \/ ServerGoes("closed", "create")
     \/ spc = "open" /\ spc' = "create" /\ UNCHANGED <<kind, cpc, chandle, paired, lost>>
  /\ Unlink("memory") /\ UNCHANGED shandle

\* The memory is not open.  shm_unlink(name), whatever it returns.
ServerUnlinkMemory ==
  /\ kind = "memory" /\ created["memory"] < MAX_CREATED
  /\ ServerUnlinks("closed", "memory", "create")

\* SharedFile: fstream with trunc, the file under the name or a new one.
ServerOpenFile ==
  /\ kind = "file"
  /\ ServerGoes("closed", "unlink_r")
  /\ OpenOrCreate("memory", 0)

\* shm_open(name, O_RDWR | O_CREAT)
ServerCreateMemory ==
  /\ ServerGoes("create", "truncate")
  /\ OpenOrCreate("memory", 0)

\* ftruncate(fd_, TOTAL_SIZE)
ServerTruncate ==
  /\ ServerGoes("truncate", "map")
  /\ sized' = sized \cup {shandle["memory"]}
  /\ UNCHANGED <<name, created, value, shandle>>

\* mmap
ServerMap == ServerPasses("map", "unlink_r")

\* Mutant: the semaphore of an earlier run is kept.
ServerKeepReader == ServerPasses("unlink_r", "unlink_w")

\* sem_unlink(prefix + "r"), sem_unlink(prefix + "w")
ServerUnlinkReader == ServerUnlinks("unlink_r", "r", "unlink_w")

ServerUnlinkWriter == ServerUnlinks("unlink_w", "w", "open_r")

\* sem_open(prefix + "r", O_CREAT, 0660, 0)
ServerOpenReader ==
  /\ ServerGoes("open_r", "open_w")
  /\ OpenOrCreate("r", 0)

\* sem_open(prefix + "w", O_CREAT, 0660, TOTAL_AMOUNT); open() returns true.
ServerOpenWriter ==
  /\ ServerGoes("open_w", "open")
  /\ OpenOrCreate("w", TOTAL_SLOTS)

\* shm_open failed: fd_ is still -1 and open() returns false.
ServerCreateFails == ServerPasses("create", "closed")

\* ftruncate, mmap or a sem_open failed: open() calls close() and returns false.
\* close() runs with what open() has got by then.
ServerOpenFails ==
  \E from \in {"truncate", "map", "open_r", "open_w"} : ServerPasses(from, "close")

-----------------------------------------------------------------------------
(* close() with server_ *)

ServerStartClose == \E from \in {"open", "drain"} : ServerPasses(from, "close")

\* munmap, ::close and sem_close: the handler lets go of its objects.
ServerRelease ==
  /\ ServerGoes("close", "close_memory")
  /\ shandle' = Nothing
  /\ UNCHANGED objects

\* shm_unlink and the two sem_unlink, by name.
ServerRemoveMemory == ServerUnlinks("close_memory", "memory", "close_r")

ServerRemoveReader == ServerUnlinks("close_r", "r", "close_w")

ServerRemoveWriter == ServerUnlinks("close_w", "w", "closed")

\* The server is killed: the kernel drops its handles, the names stay.
ServerKilled ==
  /\ \E from \in ServerStates \ {"closed"} : ServerGoes(from, "closed")
  /\ shandle' = Nothing
  /\ UNCHANGED objects

-----------------------------------------------------------------------------
(* The tokens of a server that is open *)

\* sem_wait or sem_post of the server on semaphore n
ServerToken(from, n, change, to) ==
  /\ ServerGoes(from, to)
  /\ value[n][shandle[n]] + change >= 0
  /\ value' = [value EXCEPT ![n][shandle[n]] = @ + change]
  /\ UNCHANGED <<name, created, sized, shandle>>

\* await_data() takes a token of "r" and posts it again.
ServerAwaitTake   == ServerToken("open", "r", -1, "probe")
ServerAwaitRepost == ServerToken("probe", "r", 1, "drain")

\* Mutant: read() gives the slot back to the wrong semaphore.
ServerReadReleaseReader == ServerToken("read", "r", 1, "drain")

\* read() takes a token of "r" and posts one to "w", until there is none.
ServerReadAcquire == ServerToken("drain", "r", -1, "read")
ServerReadRelease == ServerToken("read", "w", 1, "drain")
ServerReadNoData  == value["r"][shandle["r"]] = 0 /\ ServerPasses("drain", "open")

-----------------------------------------------------------------------------
(* open() and close() without server_ *)

\* shm_open(name, O_RDWR), or fstream without trunc
ClientOpenMemory ==
  /\ ClientOpens("closed", IF kind = "memory" THEN "map" ELSE "open_r")
  /\ OpenExisting("memory")
  /\ paired' = (spc \in Serving)

\* mmap, which does not look at the size of the object.
ClientMap ==
  /\ ClientOpens("map", "open_r")
  /\ UNCHANGED <<chandle, paired>>

ClientOpenReader ==
  /\ ClientOpens("open_r", "open_w")
  /\ OpenExisting("r")
  /\ UNCHANGED paired

ClientOpenWriter ==
  /\ ClientOpens("open_w", "open")
  /\ OpenExisting("w")
  /\ UNCHANGED paired

\* close(), an open() that fails (a name leads nowhere, or mmap fails), or the
\* end of the process: a client owns no name and only lets go of its handles.
ClientClose ==
  /\ \E from \in ClientStates \ {"closed", "write"} : ClientOpens(from, "closed")
  /\ chandle' = Nothing
  /\ paired' = FALSE

LoseToken == lost' = [lost EXCEPT ![chandle["w"]] = @ + 1]

\* The process ends with a token in its hands.
ClientKilled ==
  /\ ClientGoes("write", "closed")
  /\ LoseToken
  /\ chandle' = Nothing
  /\ paired' = FALSE
  /\ UNCHANGED value

\* Mutant: write() goes on when sem_wait() was interrupted.
ClientTakeInterrupted ==
  /\ ClientGoes("open", "write")
  /\ UNCHANGED <<value, chandle, paired, lost>>

\* write(): sem_wait of "w" and, when the slot is filled, sem_post of "r".
ClientTake ==
  /\ ClientGoes("open", "write")
  /\ value["w"][chandle["w"]] > 0
  /\ value' = [value EXCEPT !["w"][chandle["w"]] = @ - 1]
  /\ UNCHANGED <<chandle, paired, lost>>

\* A client that found an older "r" than "w" posts where this server does not look.
Misplaced == chandle["w"] = shandle["w"] /\ chandle["r"] # shandle["r"]

ClientPost ==
  /\ ClientGoes("write", "open")
  /\ value' = [value EXCEPT !["r"][chandle["r"]] = @ + 1]
  /\ IF Misplaced THEN LoseToken ELSE UNCHANGED lost
  /\ UNCHANGED <<chandle, paired>>

-----------------------------------------------------------------------------
ServerOpens ==
  \/ ServerUnlinkMemory \/ ServerCreateMemory \/ ServerTruncate \/ ServerMap
  \/ ServerOpenFile \/ ServerUnlinkReader \/ ServerUnlinkWriter
  \/ ServerOpenReader \/ ServerOpenWriter \/ ServerCreateFails \/ ServerOpenFails

ServerReads ==
  \/ ServerAwaitTake \/ ServerAwaitRepost
  \/ ServerReadAcquire \/ ServerReadRelease \/ ServerReadNoData

ServerCloses ==
  \/ ServerStartClose \/ ServerRelease
  \/ ServerRemoveMemory \/ ServerRemoveReader \/ ServerRemoveWriter

ClientNext ==
  \/ ClientOpenMemory \/ ClientMap \/ ClientOpenReader \/ ClientOpenWriter
  \/ ClientClose \/ ClientKilled \/ ClientTake \/ ClientPost

OpenNext == ServerOpens \/ ServerReads \/ ServerCloses \/ ServerKilled \/ ClientNext
OpenSpec == OpenInit /\ [][OpenNext]_openVars

\* The reading loop of an open server runs on.
FairOpenSpec == OpenSpec /\ WF_openVars(ServerReads)

-----------------------------------------------------------------------------
(* Properties *)

\* A client that starts after the server's open() returned gets the server's
\* three objects, and the memory among them has its size, whatever earlier runs
\* left under the names.
PairedShareObjects ==
  paired /\ cpc \in {"open", "write"} =>
    chandle = shandle /\ (kind = "memory" => chandle["memory"] \in sized)

\* Any client whose open() of a SharedMemory returned true has memory to write into:
\* "True, if handler was successfully opened", of TOTAL_SIZE bytes.  The client's mmap
\* does not look at the size, and the semaphores that it then finds may be those of
\* another run of the server.
OpenedMemoryIsSized ==
  kind = "memory" /\ cpc = "open" => chandle["memory"] \in sized

\* The slots an open server's ring has: free, filled, or in somebody's hands.
Tokens ==
  value["r"][shandle["r"]] + value["w"][shandle["w"]]
    + (IF spc \in {"probe", "read"} THEN 1 ELSE 0)
    + (IF cpc = "write" /\ chandle["w"] = shandle["w"] THEN 1 ELSE 0)

\* An open server's ring has exactly the tokens that its open() gave it, but for
\* those that went with a killed client or with one that opened in the middle of a
\* restart and posts to an older "r".  There is no other way to lose one, and none
\* to add one: no token of an earlier run counts for the new ring, and no client
\* that still has the semaphores of an earlier server brings any.
TokensAccounted == spc \in Serving => Tokens + lost[shandle["w"]] = TOTAL_SLOTS

\* As long as not all tokens of the ring are lost, a client of an open server is not
\* locked out: the sem_wait() of its write() gets a slot again.
SlotComesBack ==
  paired /\ cpc = "open" /\ lost[chandle["w"]] < TOTAL_SLOTS
    ~> ~paired \/ cpc # "open" \/ value["w"][chandle["w"]] > 0

=============================================================================
