------------------------------ MODULE SalidaNodo ------------------------------
(***************************************************************************)
(* The output of one installation on its node: the installer publishes     *)
(* fragments in a spool of bounded size (spool.py), whose oldest leave     *)
(* when it is full, until the portal acknowledges them; its manifest       *)
(* (supervisor.py) says whether it ended.  The handlers hold the lock of   *)
(* the resource, so each is one step.  The states the portal treats alike  *)
(* (preparado, ejecutando, incierto) are one, en_curso.                    *)
(***************************************************************************)
EXTENDS Naturals

CONSTANT Mensajes  \* bound of the model: fragments the installer publishes

ASSUME MensajesNat == Mensajes \in Nat

VARIABLES
  trabajo,  \* the manifest, and whether the installer runs
  cola      \* the spool; the loss to declare is a range, none if hasta is 0

varsNodo == <<trabajo, cola>>

Numeros == 1..Mensajes
Cuenta == 0..Mensajes
Finales == {"confirmado", "fallido"}
Estados == {"sin", "en_curso"} \cup Finales

Manifiestos == [estado : Estados, instala : BOOLEAN, terminado : BOOLEAN]

Colas == [ultimo : Cuenta, ack : Cuenta, marcos : SUBSET Numeros, desde : Cuenta, hasta : Cuenta]

InitNodo ==
  /\ trabajo = [estado |-> "sin", instala |-> FALSE, terminado |-> FALSE]
  /\ cola = [ultimo |-> 0, ack |-> 0, marcos |-> {}, desde |-> 0, hasta |-> 0]

Existe == trabajo.estado # "sin"

(* _start and claim_worker: the credential fails before the unit is asked  *)
(* for, the unit does not get to run the installer, or it does.            *)
Admite ==
  \E e \in {"en_curso", "fallido"}, i \in BOOLEAN :
    /\ e = "fallido" => ~i
    /\ trabajo' = [estado |-> e, instala |-> i, terminado |-> FALSE]

(* ack_locked                                                              *)
Purgada(n) ==
  LET quedan == n < cola.hasta
  IN IF n <= cola.ack THEN cola
     ELSE [ultimo |-> cola.ultimo, ack |-> n, marcos |-> {m \in cola.marcos : m > n},
           desde |-> IF quedan THEN cola.desde ELSE 0, hasta |-> IF quedan THEN cola.hasta ELSE 0]

Menor(s) == CHOOSE n \in s : \A m \in s : n <= m
Mayor(s) == CHOOSE n \in s : \A m \in s : n >= m

(* _append: the oldest fragments, up to corte, leave to make room (how     *)
(* many depends on their sizes); all of them for one over the quota.       *)
Sobran(corte, grande) ==
  {m \in cola.marcos : grande \/ m <= corte} \cup (IF grande THEN {cola.ultimo + 1} ELSE {})

ConPerdida(fuera, desde) ==
  [ultimo |-> cola.ultimo + 1, ack |-> cola.ack,
   marcos |-> (cola.marcos \cup {cola.ultimo + 1}) \ fuera,
   desde |-> IF fuera = {} THEN cola.desde ELSE desde,
   hasta |-> IF fuera = {} THEN cola.hasta ELSE Mayor(fuera)]

(* Fault: the range of the loss starts anew each time.                     *)
AgregadaSinSumar(fuera) == ConPerdida(fuera, Menor(fuera))

Agregada(fuera) ==
  ConPerdida(fuera, IF cola.desde = 0 THEN Menor(fuera) ELSE cola.desde)

(* Fault: output is taken after the result of the worker.                  *)
EmiteSiempre(corte, grande) ==
  /\ trabajo.instala /\ cola.ultimo < Mensajes
  /\ cola' = Agregada(Sobran(corte, grande))
  /\ UNCHANGED trabajo

(* append_safe; what it cannot write gets no number.                       *)
Emite(corte, grande) ==
  /\ trabajo.instala /\ ~trabajo.terminado /\ cola.ultimo < Mensajes
  /\ cola' = Agregada(Sobran(corte, grande))
  /\ UNCHANGED trabajo

(* complete or uncertain: the worker may not learn that its result was     *)
(* written, and goes on to flush its output.                               *)
Termina(e) ==
  /\ trabajo.instala /\ ~trabajo.terminado
  /\ trabajo' = [trabajo EXCEPT !.estado = e, !.terminado = TRUE]
  /\ UNCHANGED cola

(* The worker returns, is killed, times out, or the node restarts.         *)
Sale ==
  /\ trabajo.instala /\ trabajo' = [trabajo EXCEPT !.instala = FALSE]
  /\ UNCHANGED cola

Instala ==
  \/ \E n \in Cuenta, g \in BOOLEAN : Emite(n, g)
  \/ \E e \in {"en_curso"} \cup Finales : Termina(e)
  \/ Sale

TypeOKNodo == trabajo \in Manifiestos /\ cola \in Colas
============================================================================
