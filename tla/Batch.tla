-------------------------------- MODULE Batch --------------------------------
(***************************************************************************)
(* `yfin batch` (cmd/yfin/batch.go) and its cache of files                 *)
(* (internal/cache/refresh.go), over several runs on several days, any of  *)
(* which may crash.  The main goroutine takes a slot of the semaphore for  *)
(* each ticker of the list and starts a worker; a worker goes through the  *)
(* commands, fetches those whose files are not fresh, writes a file under  *)
(* the day the run began and adds each outcome to the totals: an integer   *)
(* is read and written back, under a mutex.  at[w], for the w-th ticker of *)
(* the list:                                                               *)
(*                                                                         *)
(*   "none"   not started          "sum"    holds it, between two of them  *)
(*   "look"   before ShouldSkip    "incr"   a total read, not written back *)
(*   "fetch"  before an attempt    "added"  after the Unlock, its slot     *)
(*   "write"  before its file               still taken                    *)
(*   "add"    before the mutex     "off"    returned                       *)
(*                                                                         *)
(* External: the fetchers of commandRegistry, which answer or fail.  The   *)
(* FetchContext is nil: a fetcher that looks into it panics, and with it   *)
(* the process.  A day is a number and a tier a number of days; a file is  *)
(* known by its name, which is all that is looked at: a crash may leave    *)
(* the name with half of the file, and it is as fresh as any.              *)
(* The file of the last error is written, never read, and left out.        *)
(* MaxRuns bounds the runs, MaxDay the days.                               *)
(***************************************************************************)
EXTENDS Integers, Sequences, FiniteSets

CONSTANTS TickerList,     \* as in ticker_list.csv, which may repeat one
          Commands,       \* the keys of commandRegistry, in a run's order
          Tier,           \* days between refreshes, per command (RefreshMap)
          WorkerLimits,   \* what --max-workers may be
          BatchRetries,   \* attempts of one command
          Registries,     \* sets of commands whose fetcher uses its context
          MaxRuns, MaxDay

(* Zero workers leave the first ticker waiting for a slot, a negative      *)
(* number is refused by make.                                              *)
ASSUME SlotsAssumption == WorkerLimits \subseteq Nat \ {0} /\ BatchRetries \in Nat \ {0}

(* The list may be empty, the registry is not.                             *)
ASSUME ListsAssumption == Len(TickerList) \in Nat /\ Len(Commands) \in Nat \ {0}

VARIABLES
  usesContext,     \* the registry's fetchers that would panic
  maxWorkers,      \* --max-workers, the same in every run
  day, runs,
  began, force,    \* `now` and --force of the run
  batch,           \* where main is: "off", "dispatch", "wait", "done", "dead"
  next,            \* the ticker to dispatch
  slots,           \* taken in the semaphore
  at, command, tries, outcomes,    \* per worker; outcomes are its res.Commands
  counted, register,   \* per worker: outcomes added, the total it has read
  mutex,               \* mu: the worker that holds it, or 0
  totals,              \* success, skipped and failed
  files            \* the names there are: <<command, ticker, day>>

settings == <<usesContext, maxWorkers>>
workerState == <<at, command, tries, outcomes, counted, register>>
shared == <<mutex, totals>>
batchVars == <<settings, day, runs, began, force, batch, next, slots, workerState, shared,
               files>>

Fates == {"success", "skipped", "failed"}

Tickers == 1..Len(TickerList)
NoWork == [w \in Tickers |-> <<>>]

BatchInit ==
  /\ usesContext \in Registries /\ maxWorkers \in WorkerLimits
  /\ day = 0 /\ runs = 0 /\ began = 0 /\ force = FALSE
  /\ batch = "off" /\ next = 1 /\ slots = 0
  /\ at = [w \in Tickers |-> "none"] /\ command = [w \in Tickers |-> 1]
  /\ tries = [w \in Tickers |-> 0] /\ outcomes = NoWork
  /\ counted = [w \in Tickers |-> 0] /\ register = [w \in Tickers |-> 0]
  /\ mutex = 0 /\ totals = [o \in Fates |-> 0]
  /\ files = {}

-----------------------------------------------------------------------------
(* What a process had in memory is gone with it. *)
Anew ==
  /\ next' = 1 /\ slots' = 0
  /\ at' = [w \in Tickers |-> "none"] /\ command' = [w \in Tickers |-> 1]
  /\ tries' = [w \in Tickers |-> 0] /\ outcomes' = NoWork
  /\ counted' = [w \in Tickers |-> 0] /\ register' = [w \in Tickers |-> 0]
  /\ mutex' = 0 /\ totals' = [o \in Fates |-> 0]

Dies ==
  /\ batch' = "dead"
  /\ Anew /\ began' = 0 /\ force' = FALSE
  /\ UNCHANGED <<settings, day, runs, files>>

(* runBatch *)
Start ==
  /\ batch \in {"off", "done", "dead"} /\ runs < MaxRuns
  /\ runs' = runs + 1 /\ began' = day
  /\ force' \in BOOLEAN
  /\ batch' = "dispatch" /\ Anew
  /\ UNCHANGED <<settings, day, files>>

Dispatch ==
  /\ batch = "dispatch" /\ next <= Len(TickerList) /\ slots < maxWorkers
  /\ slots' = slots + 1
  /\ at' = [at EXCEPT ![next] = "look"]
  /\ next' = next + 1
  /\ UNCHANGED <<settings, day, runs, began, force, batch, command, tries, outcomes,
                 counted, register, shared, files>>

AllDispatched ==
  /\ batch = "dispatch" /\ next > Len(TickerList)
  /\ batch' = "wait"
  /\ UNCHANGED <<settings, day, runs, began, force, next, slots, workerState, shared, files>>

Finish ==
  /\ batch = "wait" /\ \A w \in Tickers : at[w] = "off"
  /\ batch' = "done"
  /\ UNCHANGED <<settings, day, runs, began, force, next, slots, workerState, shared, files>>

-----------------------------------------------------------------------------
(* ShouldSkip: there are files, and every one of them is of this period.   *)
(* (No command has the weekly tier, the only one that is not a period.)    *)
Dates(w) == {d \in 0..MaxDay : <<Commands[command[w]], TickerList[w], d>> \in files}
Fresh(w, d) == d \div Tier[Commands[command[w]]] = began \div Tier[Commands[command[w]]]
ShouldSkip(w) == ~ force /\ Dates(w) # {} /\ \A d \in Dates(w) : Fresh(w, d)

(* A command is done with: the next one, or the end. *)
Conclude(w, outcome) ==
  /\ outcomes' = [outcomes EXCEPT ![w] = Append(@, outcome)]
  /\ tries' = [tries EXCEPT ![w] = 0]
  /\ IF command[w] < Len(Commands)
       THEN /\ command' = [command EXCEPT ![w] = @ + 1]
            /\ at' = [at EXCEPT ![w] = "look"]
       ELSE /\ at' = [at EXCEPT ![w] = "add"]
            /\ UNCHANGED command
  /\ UNCHANGED <<settings, day, runs, began, force, batch, next, slots, counted, register,
                 shared>>

Moves(w, where) ==
  /\ at' = [at EXCEPT ![w] = where]
  /\ UNCHANGED <<settings, day, runs, began, force, batch, next, slots, command, outcomes,
                 counted, register, shared>>

At(w, where) == batch \in {"dispatch", "wait"} /\ at[w] = where

Skip(w) ==
  /\ At(w, "look") /\ ShouldSkip(w)
  /\ Conclude(w, "skipped")
  /\ UNCHANGED files

Refetch(w) ==
  /\ At(w, "look") /\ ~ ShouldSkip(w)
  /\ Moves(w, "fetch")
  /\ UNCHANGED <<tries, files>>

Panic(w) ==
  /\ At(w, "fetch") /\ Commands[command[w]] \in usesContext
  /\ Dies

Fetched(w) ==
  /\ At(w, "fetch") /\ Commands[command[w]] \notin usesContext
  /\ Moves(w, "write")
  /\ UNCHANGED <<tries, files>>

FetchAgain(w) ==
  /\ At(w, "fetch") /\ Commands[command[w]] \notin usesContext
  /\ tries[w] < BatchRetries - 1
  /\ tries' = [tries EXCEPT ![w] = @ + 1]
  /\ Moves(w, "fetch")
  /\ UNCHANGED files

NotFetched(w) ==
  /\ At(w, "fetch") /\ Commands[command[w]] \notin usesContext
  /\ tries[w] = BatchRetries - 1
  /\ Conclude(w, "failed")
  /\ UNCHANGED files

(* os.WriteFile, whose errors are ignored: the name may be there or not. *)
File(w) == <<Commands[command[w]], TickerList[w], began>>

WriteFile(w) ==
  /\ At(w, "write")
  /\ files' \in {files, files \cup {File(w)}}
  /\ Conclude(w, "success")

(* The totals, one outcome after the other under the mutex. *)
NoMutex == TRUE                         \* fault: mu.Lock is not called
MutexFree == mutex = 0

Totals(w, where) ==
  /\ at' = [at EXCEPT ![w] = where]
  /\ UNCHANGED <<settings, day, runs, began, force, batch, next, command, tries, outcomes,
                 files>>

LockTotals(w) ==
  /\ At(w, "add") /\ MutexFree
  /\ mutex' = w
  /\ Totals(w, "sum")
  /\ UNCHANGED <<slots, counted, register, totals>>

ToAdd(w) == outcomes[w][counted[w] + 1]

ReadTotal(w) ==
  /\ At(w, "sum") /\ counted[w] < Len(outcomes[w])
  /\ register' = [register EXCEPT ![w] = totals[ToAdd(w)]]
  /\ Totals(w, "incr")
  /\ UNCHANGED <<slots, counted, shared>>

WriteTotal(w) ==
  /\ At(w, "incr")
  /\ totals' = [totals EXCEPT ![ToAdd(w)] = register[w] + 1]
  /\ counted' = [counted EXCEPT ![w] = @ + 1]
  /\ register' = [register EXCEPT ![w] = 0]
  /\ Totals(w, "sum")
  /\ UNCHANGED <<slots, mutex>>

UnlockTotals(w) ==
  /\ At(w, "sum") /\ counted[w] = Len(outcomes[w])
  /\ mutex' = 0
  /\ Totals(w, "added")
  /\ UNCHANGED <<slots, counted, register, totals>>

(* The deferred calls: the slot is given back, then wg.Done. *)
KeepsSlot == UNCHANGED slots                       \* fault: `<-sem` is forgotten
GiveBack == slots' = slots - 1

Done(w) ==
  /\ At(w, "added")
  /\ GiveBack
  /\ Totals(w, "off")
  /\ UNCHANGED <<counted, register, shared>>

-----------------------------------------------------------------------------
Crash ==
  /\ batch \in {"dispatch", "wait"}
  /\ Dies

Midnight ==
  /\ day < MaxDay
  /\ day' = day + 1
  /\ UNCHANGED <<settings, runs, began, force, batch, next, slots, workerState, shared, files>>

MainStep == Dispatch \/ AllDispatched \/ Finish
WorkStep(w) ==
  \/ Skip(w) \/ Refetch(w)
  \/ Panic(w) \/ Fetched(w) \/ FetchAgain(w) \/ NotFetched(w) \/ WriteFile(w)
  \/ LockTotals(w) \/ ReadTotal(w) \/ WriteTotal(w) \/ UnlockTotals(w) \/ Done(w)

BatchNext == Start \/ MainStep \/ Crash \/ Midnight \/ \E w \in Tickers : WorkStep(w)

BatchSpec == BatchInit /\ [][BatchNext]_batchVars

(* Goroutines are scheduled, fetches have a timeout and attempts an end. *)
BatchFairSpec ==
  /\ BatchSpec
  /\ WF_batchVars(MainStep)
  /\ \A w \in Tickers : WF_batchVars(WorkStep(w))

-----------------------------------------------------------------------------
(* The totals that are printed are, kind by kind, what became of the        *)
(* commands of all tickers, each counted once: no worker loses or repeats   *)
(* what another adds at the same time, also when the list repeats a ticker  *)
(* and its workers share their files.                                       *)
Counted(outcome) ==
  {p \in Tickers \X (1..Len(Commands)) :
     p[2] <= counted[p[1]] /\ outcomes[p[1]][p[2]] = outcome}

TotalsAddUp ==
  batch = "done" =>
    /\ \A w \in Tickers : Len(outcomes[w]) = Len(Commands) /\ counted[w] = Len(Commands)
    /\ \A o \in Fates : totals[o] = Cardinality(Counted(o))

(* A batch that was begun ends or dies: every ticker gets a slot.           *)
BatchEnds == batch = "dispatch" ~> batch \in {"done", "dead"}

(* What the comment of ShouldSkip says: "returns true if a fresh enough     *)
(* cached file exists for (command, ticker)".                               *)
FreshFilesAreReused ==
  [][\A w \in Tickers : At(w, "look") /\ at'[w] = "fetch" /\ ~ force =>
       \A d \in Dates(w) : ~ Fresh(w, d)]_batchVars
==============================================================================
