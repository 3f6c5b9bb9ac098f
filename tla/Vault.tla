------------------------------- MODULE Vault -------------------------------
(***************************************************************************)
(* The start of a node up to a chain it can work with: unlock_or_create_   *)
(* vault of src/src/wallet.rs for one vault after the other, the public    *)
(* keys read back, and the state loaded or genesis made, in src/src/main   *)
(* .rs.  Node processes have a database each and share the directory with  *)
(* the vault files.  And the identity file of the mining pool.             *)
(*                                                                         *)
(* A file is written in place: for a while it is torn, and a crash leaves  *)
(* it so.  An operator may take any time over a password.  Seeds are       *)
(* numbered as they are drawn; the address of a seed is its public key.    *)
(* A torn secret file is taken to be neither JSON nor of 32 bytes.         *)
(***************************************************************************)
EXTENDS Integers, FiniteSets

CONSTANTS
  Processes,   \* nodes run in one directory
  VAULTS,      \* vault files, unlocked in order: master_vault_a, operational_vault_b
  MaxSeeds,    \* bound: seeds drawn
  MaxCrashes   \* bound: crashes

ASSUME VaultAssumption ==
  VAULTS \in Nat \ {0} /\ MaxSeeds \in Nat /\ VAULTS <= MaxSeeds /\ MaxCrashes \in Nat

Vaults == 1 .. VAULTS
Seeds == 1 .. MaxSeeds

missing == [kind |-> "missing", seed |-> 0]
torn == [kind |-> "torn", seed |-> 0]
address(seed) == [kind |-> "address", seed |-> seed]
raw(seed) == [kind |-> "raw", seed |-> seed]
encrypted(seed) == [kind |-> "encrypted", seed |-> seed]

VARIABLES
  public_key,   \* files <vault>_public.key
  secret_key,   \* files <vault>_secret.key
  db,           \* per process: the addresses genesis allocated to, <<>> before
  process,      \* per process: where it is, and what it holds in memory
  identity,     \* file pool_identity.key
  pool,         \* the pool: its stage and the seed it holds
  seeds,        \* seeds drawn so far
  crashes,      \* crashes so far
  doubled,      \* history: vaults that two processes were creating at once
  interrupted,  \* history: vaults whose migration a crash cut short
  pool_seeds    \* history: the seeds the pool went online with

files == <<public_key, secret_key>>
history == <<doubled, interrupted, pool_seeds>>
vars == <<files, db, process, identity, pool, seeds, crashes, history>>
pool_vars == <<identity, pool, pool_seeds>>

off == [stage |-> "off", vault |-> 1, step |-> 0, seed |-> 0,
        seeds |-> [v \in Vaults |-> 0], addresses |-> [v \in Vaults |-> missing]]

\* A first start, or one with vaults from before encryption, in use or not.
Init ==
  /\ \/ /\ seeds = 0
        /\ public_key = [v \in Vaults |-> missing]
        /\ secret_key = public_key
        /\ db = [p \in Processes |-> <<>>]
     \/ /\ seeds = VAULTS
        /\ public_key = [v \in Vaults |-> address(v)]
        /\ secret_key = [v \in Vaults |-> raw(v)]
        /\ db \in [Processes -> {<<>>, public_key}]
  /\ process = [p \in Processes |-> off]
  /\ identity = missing /\ pool = [stage |-> "off", seed |-> 0]
  /\ crashes = 0 /\ doubled = {} /\ interrupted = {} /\ pool_seeds = {}

goes_on(p, next) == process' = [process EXCEPT ![p] = next]

Start(p) ==
  /\ process[p].stage = "off"
  /\ goes_on(p, [off EXCEPT !.stage = "look"])
  /\ UNCHANGED <<files, db, seeds, crashes, history, pool_vars>>

being_created(v) ==
  \E p \in Processes : process[p].stage = "create" /\ process[p].vault = v

\* Mutant of held: a file that cannot be read is taken for none.
held_readable(file) == IF file.kind = "torn" THEN missing ELSE file

\* What the start finds in place of a vault's secret file.
held(file) == file

\* The secret file is missing, encrypted, an old raw seed, or corrupted.
Look(p) ==
  /\ process[p].stage = "look"
  /\ LET v    == process[p].vault
         file == held(secret_key[v])
     IN  \/ /\ file = missing /\ seeds < MaxSeeds
            /\ seeds' = seeds + 1
            /\ goes_on(p, [process[p] EXCEPT !.stage = "create", !.step = 1,
                                             !.seed = seeds + 1])
            /\ doubled' = IF being_created(v) THEN doubled \cup {v} ELSE doubled
         \/ /\ file.kind \in {"encrypted", "raw"}
            /\ goes_on(p, [process[p] EXCEPT
                 !.stage = IF file.kind = "raw" THEN "migrate" ELSE "locked",
                 !.step = 1, !.seed = file.seed])
            /\ UNCHANGED <<seeds, doubled>>
         \/ /\ file = torn  \* panics
            /\ goes_on(p, off)
            /\ UNCHANGED <<seeds, doubled>>
  /\ UNCHANGED <<files, db, crashes, interrupted, pool_vars>>

\* Mutant of unlocked: the public keys are not read from the first on.
unlocked_not_reset(p) ==
  [process[p] EXCEPT
     !.stage = IF process[p].vault < VAULTS THEN "look" ELSE "read",
     !.vault = @ + 1,
     !.seeds[process[p].vault] = process[p].seed]

\* The process once it has the seed of the vault it is at.
unlocked(p) ==
  [process[p] EXCEPT
     !.stage = IF process[p].vault < VAULTS THEN "look" ELSE "read",
     !.vault = IF @ < VAULTS THEN @ + 1 ELSE 1,
     !.seeds[process[p].vault] = process[p].seed]

\* The operator gives the right password.
Unlock(p) ==
  /\ process[p].stage = "locked"
  /\ goes_on(p, unlocked(p))
  /\ UNCHANGED <<files, db, seeds, crashes, history, pool_vars>>

\* Mutant of created_files: the secret file is written first.
created_files_secret_first == <<"secret", "public">>

\* The files of a new vault, in the order they are written.
created_files == <<"public", "secret">>

\* The next file of a creation or migration is truncated (odd steps), then has
\* its contents (even steps).
WriteFile(p) ==
  /\ process[p].stage \in {"create", "migrate"}
  /\ LET me       == process[p]
         order    == IF me.stage = "create" THEN created_files ELSE <<"secret">>
         file     == order[(me.step + 1) \div 2]
         complete == me.step % 2 = 0
     IN  /\ IF file = "public"
            THEN /\ public_key' = [public_key EXCEPT
                      ![me.vault] = IF complete THEN address(me.seed) ELSE torn]
                 /\ UNCHANGED secret_key
            ELSE /\ secret_key' = [secret_key EXCEPT
                      ![me.vault] = IF complete THEN encrypted(me.seed) ELSE torn]
                 /\ UNCHANGED public_key
         /\ goes_on(p, IF me.step = 2 * (IF me.stage = "create" THEN 2 ELSE 1)
                       THEN unlocked(p) ELSE [me EXCEPT !.step = @ + 1])
  /\ UNCHANGED <<db, seeds, crashes, history, pool_vars>>

\* With all seeds in memory, the public keys are read back from their files.
ReadPublicKey(p) ==
  /\ process[p].stage = "read"
  /\ LET me == process[p]
     IN  goes_on(p, IF public_key[me.vault] = missing THEN off  \* panics
                    ELSE [me EXCEPT
                            !.addresses[me.vault] = public_key[me.vault],
                            !.stage = IF me.vault < VAULTS THEN "read" ELSE "chain",
                            !.vault = IF @ < VAULTS THEN @ + 1 ELSE 1])
  /\ UNCHANGED <<files, db, seeds, crashes, history, pool_vars>>

\* The stored state, or genesis with the addresses just read.
LoadChain(p) ==
  /\ process[p].stage = "chain"
  /\ db' = [db EXCEPT ![p] = IF @ = <<>> THEN process[p].addresses ELSE @]
  /\ goes_on(p, [process[p] EXCEPT !.stage = "online"])
  /\ UNCHANGED <<files, seeds, crashes, history, pool_vars>>

\* A crash in the middle of a migration leaves the only copy of the seed torn.
Crash(p) ==
  /\ crashes < MaxCrashes /\ process[p].stage # "off"
  /\ crashes' = crashes + 1
  /\ interrupted' = IF process[p].stage = "migrate" /\ process[p].step = 2
                    THEN interrupted \cup {process[p].vault} ELSE interrupted
  /\ goes_on(p, off)
  /\ UNCHANGED <<files, db, seeds, doubled, pool_vars>>

(***************************************************************************)
(* The pool's identity: a file that cannot be parsed is replaced.          *)
(***************************************************************************)

\* unlock_or_create_pool_identity: the seed in the file, or a new one.
PoolLook ==
  /\ pool.stage = "off"
  /\ \/ /\ identity.kind = "encrypted"
        /\ pool' = [stage |-> "online", seed |-> identity.seed]
        /\ pool_seeds' = pool_seeds \cup {identity.seed}
        /\ UNCHANGED seeds
     \/ /\ identity.kind # "encrypted" /\ seeds < MaxSeeds
        /\ seeds' = seeds + 1
        /\ pool' = [stage |-> "create", seed |-> seeds + 1]
        /\ UNCHANGED pool_seeds
  /\ UNCHANGED <<files, db, process, identity, crashes, doubled, interrupted>>

\* Mutant of PoolWrite: the pool works before its identity is stored.
PoolWrite_late ==
  /\ pool.stage = "create"
  /\ identity' = torn
  /\ pool' = [pool EXCEPT !.stage = "online"]
  /\ pool_seeds' = pool_seeds \cup {pool.seed}
  /\ UNCHANGED <<files, db, process, seeds, crashes, doubled, interrupted>>

\* save_vault_file: truncated first, then complete, and only then in use.
PoolWrite ==
  /\ pool.stage \in {"create", "write"}
  /\ IF pool.stage = "create"
     THEN /\ identity' = torn
          /\ pool' = [pool EXCEPT !.stage = "write"]
          /\ UNCHANGED pool_seeds
     ELSE /\ identity' = encrypted(pool.seed)
          /\ pool' = [pool EXCEPT !.stage = "online"]
          /\ pool_seeds' = pool_seeds \cup {pool.seed}
  /\ UNCHANGED <<files, db, process, seeds, crashes, doubled, interrupted>>

PoolCrash ==
  /\ crashes < MaxCrashes /\ pool.stage # "off"
  /\ crashes' = crashes + 1
  /\ pool' = [stage |-> "off", seed |-> 0]
  /\ UNCHANGED <<files, db, process, identity, seeds, history>>

Next ==
  \/ \E p \in Processes :
       \/ Start(p) \/ Look(p) \/ Unlock(p) \/ WriteFile(p)
       \/ ReadPublicKey(p) \/ LoadChain(p) \/ Crash(p)
  \/ PoolLook \/ PoolWrite \/ PoolCrash

Spec == Init /\ [][Next]_vars

(***************************************************************************)
(* Properties.                                                             *)
(***************************************************************************)

\* Files, databases and processes have their shapes; no seed is in use that was
\* not drawn.
TypeOK ==
  /\ \A v \in Vaults :
       /\ public_key[v].kind \in {"missing", "torn", "address"}
       /\ secret_key[v].kind \in {"missing", "torn", "raw", "encrypted"}
       /\ {public_key[v].seed, secret_key[v].seed} \subseteq 0 .. seeds
  /\ \A p \in Processes :
       /\ process[p].stage \in {"off", "look", "create", "migrate", "locked", "read",
                               "chain", "online"}
       /\ process[p].vault \in Vaults /\ process[p].seed \in 0 .. seeds
       /\ db[p] = <<>> \/ DOMAIN db[p] = Vaults
       /\ process[p].stage = "online" => db[p] # <<>>
  /\ identity.kind \in {"missing", "torn", "encrypted"}
  /\ pool.stage \in {"off", "create", "write", "online"}
  /\ pool.seed \in 0 .. seeds /\ pool_seeds \subseteq 1 .. seeds
  /\ seeds \in 0 .. MaxSeeds /\ crashes \in 0 .. MaxCrashes

\* Vaults whose files only one process at a time has tried to create.
Orderly == Vaults \ doubled

\* A node that works holds, for each vault, the seed of the address it signs
\* for: what the public key file gave it was complete and belongs to the
\* secret file, however many crashes came before.
SeedMatchesAddress ==
  \A p \in Processes : process[p].stage = "online" =>
    \A v \in Orderly : process[p].addresses[v] = address(process[p].seeds[v])

\* What genesis allocated to a vault can be spent, and no start, crash or
\* migration gives the vault another identity: its public key file keeps the
\* address every chain began with, and the seed of that address is in its secret
\* file, unless a migration of it was cut short or is in progress in a process
\* that holds the seed.
TreasuryRecoverable ==
  \A p \in Processes, v \in Orderly : db[p] # <<>> =>
    /\ public_key[v] = db[p][v]
    /\ v \notin interrupted =>
         \/ /\ secret_key[v].kind \in {"raw", "encrypted"}
            /\ db[p][v] = address(secret_key[v].seed)
         \/ \E q \in Processes :
              /\ process[q].stage = "migrate" /\ process[q].vault = v
              /\ db[p][v] = address(process[q].seed)

\* The pool never works under another identity than it once worked under,
\* although a file it cannot parse is replaced by a new one.
IdentityKept ==
  /\ Cardinality(pool_seeds) <= 1
  /\ \A s \in pool_seeds : identity = encrypted(s)
=============================================================================
