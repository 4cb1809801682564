------------------------------- MODULE MCMutex -------------------------------
(* Instances of Mutex for TLC. *)
EXTENDS Mutex

CONSTANTS t1, t2, t3

ThreeTasks == {t1, t2, t3}

(* Two tasks that sleep through signals or only try, and one that signals   *)
(* can interrupt.                                                           *)
MCCalls ==
    [t \in ThreeTasks |->
       CASE t = t1 -> {"lock", "trylock"}
         [] t = t2 -> {"interruptible", "killable"}
         [] t = t3 -> {"lock", "trylock"}]

(* The builds in use, and the one of hexagon SMP kernels. *)
SoundBuilds == {<<"dec", TRUE>>, <<"dec", FALSE>>, <<"xchg", FALSE>>, <<"null", FALSE>>}
XchgSpin == {<<"xchg", TRUE>>}
=============================================================================
