------------------------------ MODULE AtomicMix ------------------------------
(***************************************************************************)
(* What the entropy mixer promises the threads that share it: once made,   *)
(* its cached contributions change, and are taken, as a whole at one       *)
(* instant; a refresh brings jitter of its own, and either keeps the TPM   *)
(* bytes or replaces all of them by those of one new read.  This is the    *)
(* mixer that the models of the searches use.                              *)
(***************************************************************************)
CONSTANTS Threads,  \* the threads that share the mixer
          NotMade,  \* the cache before the mixer is made
          Nothing   \* what a thread holds before it took contributions

VARIABLES cache,    \* the cached contributions, [jitter, tpm]
          earlier,  \* all the contributions cached before
          held      \* held[w]: the contributions that thread w took last

mixVars == <<cache, earlier, held>>

MixInit == /\ cache = NotMade
           /\ earlier = {}
           /\ held = [w \in Threads |-> Nothing]

Make == /\ cache = NotMade
        /\ cache' # NotMade
        /\ UNCHANGED <<earlier, held>>

OfOneRead(bytes) == \A i, j \in DOMAIN bytes : bytes[i] = bytes[j]

Renew == /\ cache # NotMade
         /\ earlier' = earlier \cup {cache}
         /\ \A c \in earlier' : cache'.jitter # c.jitter
         /\ \/ cache'.tpm = cache.tpm
            \/ OfOneRead(cache'.tpm) /\ \A c \in earlier' : cache'.tpm # c.tpm
         /\ UNCHANGED held

Take(w) == /\ cache # NotMade
           /\ held' = [held EXCEPT ![w] = cache]
           /\ UNCHANGED <<cache, earlier>>

MixNext == Make \/ Renew \/ \E w \in Threads : Take(w)

MixSpec == MixInit /\ [][MixNext]_mixVars
=============================================================================
