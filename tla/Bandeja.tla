------------------------------ MODULE Bandeja ------------------------------
(***************************************************************************)
(* The outbox of e-mails (notificacion_service.py) under the job that      *)
(* empties it, which may run twice when its lock lapses, and the events of *)
(* the account that is written to.  A welcome carries the provisional      *)
(* password; any other message is a notice.                                *)
(***************************************************************************)
EXTENDS TrabajosUnicos

CONSTANTS
  Mensajes,   \* rows of notificaciones with canal = email, for one account
  MaxEntregas \* bound: deliveries of one message that are told apart

ASSUME MaxEntregasNatural == MaxEntregas \in Nat \ {0}

VARIABLES
  bienvenida, \* the messages with auth_version_objetivo
  mensajes,   \* the rows
  obra,       \* the message each instance claimed, and how far it got
  provisoria, \* usuarios.debe_cambiar_password
  habilitado  \* exigir_habilitacion: no restore is pending

vars == <<cerrojo, ejecucion, bienvenida, mensajes, obra, provisoria, habilitado>>
usuario == <<bienvenida, provisoria, habilitado>>

Abiertos == {"pendiente", "fallida", "enviando"}
Finales == {"enviada", "cancelada"}
Resultados == Finales \cup {"fallida"}
SinObra == [fase |-> "nada", mensaje |-> Nadie, resultado |-> "fallida"]

(* plazo: lease_hasta, or proximo_intento_at, has not come yet; admite:    *)
(* the account, its address, its preference and its category accept the    *)
(* message, or never will again: the version of a welcome was replaced or  *)
(* its day passed; entregas and duda are history: deliveries, and claims   *)
(* that ended with nobody knowing whether there was one.                   *)
Filas ==
  [estado : {"ausente"} \cup Abiertos \cup Finales, plazo : BOOLEAN,
   dueno : Instancias \cup {Nadie}, secreto : BOOLEAN, admite : {"si", "no", "nunca"},
   entregas : 0..MaxEntregas, duda : BOOLEAN]

Ausente ==
  [estado |-> "ausente", plazo |-> FALSE, dueno |-> Nadie, secreto |-> FALSE, admite |-> "si",
   entregas |-> 0, duda |-> FALSE]

Init ==
  /\ InitCerrojo
  /\ bienvenida \in SUBSET Mensajes
  /\ mensajes = [m \in Mensajes |-> Ausente]
  /\ obra = [i \in Instancias |-> SinObra]
  /\ provisoria = TRUE /\ habilitado = TRUE

Pone(m, cambios) == mensajes' = [mensajes EXCEPT ![m] = cambios]

(* encolar_bienvenida with the new account, the others with the event they *)
(* tell; the unique key of event, addressee and channel makes it once.     *)
Encolar(m) ==
  /\ habilitado /\ mensajes[m].estado = "ausente"
  /\ m \in bienvenida => provisoria
  /\ Pone(m, [mensajes[m] EXCEPT !.estado = "pendiente", !.secreto = m \in bienvenida])
  /\ UNCHANGED <<varsCerrojo, obra, usuario>>

(* Fault: a claimed message is taken whatever its lease.                   *)
ReclamableSinMirarPlazo(m) ==
  mensajes[m].estado = "enviando" \/ (mensajes[m].estado \in Abiertos /\ ~mensajes[m].plazo)

(* Fault: a claim that was lost is not taken over.                         *)
ReclamableSinRetomar(m) == mensajes[m].estado \in {"pendiente", "fallida"} /\ ~mensajes[m].plazo

Reclamable(m) == mensajes[m].estado \in Abiertos /\ ~mensajes[m].plazo

(* _claim, after exigir_habilitacion                                       *)
Reclamar(i, m) ==
  /\ Corre(i) /\ obra[i] = SinObra /\ habilitado /\ Reclamable(m)
  /\ Pone(m, [mensajes[m] EXCEPT !.estado = "enviando", !.plazo = TRUE, !.dueno = i])
  /\ obra' = [obra EXCEPT ![i] = [SinObra EXCEPT !.fase = "reclamada", !.mensaje = m]]
  /\ UNCHANGED <<varsCerrojo, usuario>>

(* Whether the message may still go, as read after the claim; a row that   *)
(* could be claimed still has its secret.                                  *)
Permitido(m) ==
  mensajes[m].admite = "si" /\ (m \in bienvenida => provisoria)

Avanza(i, cambios) ==
  /\ obra' = [obra EXCEPT ![i] = cambios]
  /\ UNCHANGED <<varsCerrojo, usuario>>

(* procesar_uno before SMTP                                                *)
Leer(i) ==
  /\ obra[i].fase = "reclamada"
  /\ Avanza(i, IF Permitido(obra[i].mensaje) THEN [obra[i] EXCEPT !.fase = "smtp"]
               ELSE [obra[i] EXCEPT !.fase = "guardar", !.resultado = "cancelada"])
  /\ UNCHANGED mensajes

(* despachar_email: delivered and answered, delivered with its answer      *)
(* lost, or refused.                                                       *)
Entregar(i) ==
  LET m == obra[i].mensaje
  IN /\ obra[i].fase = "smtp"
     /\ \E respuesta \in BOOLEAN :
          /\ Pone(m, [mensajes[m] EXCEPT !.entregas = IF @ < MaxEntregas THEN @ + 1 ELSE @,
                                         !.duda = @ \/ ~respuesta])
          /\ Avanza(i, [obra[i] EXCEPT !.fase = "guardar",
                          !.resultado = IF respuesta THEN "enviada" ELSE "fallida"])

(* Fault: the failure of SMTP is swallowed.                                *)
NoEntregarCallado(i) ==
  /\ obra[i].fase = "smtp"
  /\ Avanza(i, [obra[i] EXCEPT !.fase = "guardar", !.resultado = "enviada"])
  /\ UNCHANGED mensajes

NoEntregar(i) ==
  /\ obra[i].fase = "smtp"
  /\ Avanza(i, [obra[i] EXCEPT !.fase = "guardar", !.resultado = "fallida"])
  /\ UNCHANGED mensajes

(* The condition of the update: state, owner and generation of the claim.  *)
ReclamoPropio(i) ==
  LET m == obra[i].mensaje IN mensajes[m].estado = "enviando" /\ mensajes[m].dueno = i

Resuelta(m, r) ==
  [mensajes[m] EXCEPT !.estado = r, !.dueno = Nadie, !.plazo = r = "fallida",
                      !.secreto = @ /\ r = "fallida"]

Guardar(i) ==
  LET m == obra[i].mensaje
  IN /\ obra[i].fase = "guardar"
     /\ mensajes' = IF ReclamoPropio(i) THEN [mensajes EXCEPT ![m] = Resuelta(m, obra[i].resultado)]
                    ELSE mensajes
     /\ Avanza(i, SinObra)

(* The lease of a claim, or the delay before another try, passes.          *)
VencePlazo(m) ==
  /\ mensajes[m].plazo
  /\ Pone(m, [mensajes[m] EXCEPT !.plazo = FALSE, !.duda = @ \/ mensajes[m].estado = "enviando"])
  /\ UNCHANGED <<varsCerrojo, obra, usuario>>

(* Fault: a welcome that is being sent keeps its secret.                   *)
CancelablesSinEnviando == {"pendiente", "fallida"}

Cancelables == Abiertos

Cancelada(m) ==
  [mensajes[m] EXCEPT !.estado = "cancelada", !.secreto = FALSE, !.dueno = Nadie, !.plazo = FALSE]

(* cancelar_bienvenidas and invalidar_todas                                *)
CancelarBienvenidas ==
  mensajes' = [m \in Mensajes |->
    IF m \in bienvenida /\ mensajes[m].estado \in Cancelables THEN Cancelada(m) ELSE mensajes[m]]

(* The account sets its own password (cambiar_password_inicial), or an     *)
(* administrator a new provisional one (actualizar_usuario, or the         *)
(* reissue after a restore).                                               *)
CambiarPassword ==
  /\ provisoria' \in BOOLEAN
  /\ CancelarBienvenidas
  /\ UNCHANGED <<varsCerrojo, obra, bienvenida, habilitado>>

(* The twenty-four hours of a provisional password pass, or consola_access *)
(* invalidates the sessions of the account without cancelling anything.    *)
Caduca(m) ==
  /\ m \in bienvenida /\ mensajes[m].estado \in Abiertos
  /\ Pone(m, [mensajes[m] EXCEPT !.admite = "nunca"])
  /\ UNCHANGED <<varsCerrojo, obra, usuario>>

(* The account is deactivated, changes its address or its preference, or   *)
(* loses the category; or the contrary.                                    *)
CambiaDestino(m) ==
  /\ mensajes[m].estado \in Abiertos /\ mensajes[m].admite # "nunca"
  /\ Pone(m, [mensajes[m] EXCEPT !.admite = IF @ = "si" THEN "no" ELSE "si"])
  /\ UNCHANGED <<varsCerrojo, obra, usuario>>

(* preparar_restauracion                                                   *)
Corte ==
  /\ habilitado
  /\ mensajes' = [m \in Mensajes |->
       IF mensajes[m].estado \in Abiertos THEN Cancelada(m) ELSE mensajes[m]]
  /\ habilitado' = FALSE
  /\ UNCHANGED <<varsCerrojo, obra, bienvenida, provisoria>>

(* restauracion_service.habilitar                                          *)
Habilitar ==
  /\ ~habilitado /\ habilitado' = TRUE
  /\ UNCHANGED <<varsCerrojo, mensajes, obra, bienvenida, provisoria>>

(* The steps of the job around the outbox: it ends with no message in      *)
(* hand, and one that raises or dies leaves its claim behind.              *)
Empieza(i) == habilitado /\ Adquirir(i) /\ UNCHANGED obra
Concluye(i) == obra[i] = SinObra /\ Comprobar(i) /\ UNCHANGED obra
Libera(i) == Soltar(i) /\ UNCHANGED obra
Interrumpe(i) == (FallaCuerpo(i) \/ Caida(i)) /\ obra' = [obra EXCEPT ![i] = SinObra]

Trabajo(i) == Empieza(i) \/ Concluye(i) \/ Libera(i) \/ Interrumpe(i)

Next ==
  \/ \E i \in Instancias :
       \/ Trabajo(i) /\ UNCHANGED <<mensajes, usuario>>
       \/ Leer(i) \/ Entregar(i) \/ NoEntregar(i) \/ Guardar(i)
       \/ \E m \in Mensajes : Reclamar(i, m)
  \/ VenceCerrojo /\ UNCHANGED <<obra, mensajes, usuario>>
  \/ \E m \in Mensajes : Encolar(m) \/ VencePlazo(m) \/ Caduca(m) \/ CambiaDestino(m)
  \/ CambiarPassword \/ Corte \/ Habilitar

Spec == Init /\ [][Next]_vars

(* The scheduler starts the job again and again, the clock advances, and   *)
(* an execution goes on unless it dies; executions do not die for ever at  *)
(* the same step of a message they own, nor pass over one message for      *)
(* ever, as they take the one that waits longest.                          *)
Vigila(i, m) == obra[i].mensaje = m /\ ReclamoPropio(i)

Justicia ==
  /\ WF_vars(VenceCerrojo /\ cerrojo.dueno = Muerta /\ UNCHANGED <<obra, mensajes, usuario>>)
  /\ WF_vars(\E i \in Instancias : Empieza(i) /\ UNCHANGED <<mensajes, usuario>>)
  /\ \A i \in Instancias :
       /\ WF_vars(Concluye(i) /\ UNCHANGED <<mensajes, usuario>>)
       /\ WF_vars(Libera(i) /\ UNCHANGED <<mensajes, usuario>>)
       /\ WF_vars(Leer(i) \/ Entregar(i) \/ NoEntregar(i) \/ Guardar(i))
  /\ \A m \in Mensajes :
       /\ WF_vars(VencePlazo(m))
       /\ SF_vars(\E i \in Instancias : Reclamar(i, m))
       /\ SF_vars(\E i \in Instancias : Vigila(i, m) /\ Leer(i))
       /\ SF_vars(\E i \in Instancias : Vigila(i, m) /\ (Entregar(i) \/ NoEntregar(i)))
       /\ SF_vars(\E i \in Instancias : Vigila(i, m) /\ Guardar(i))

SpecJusta == Spec /\ Justicia
----------------------------------------------------------------------------
TypeOK ==
  /\ TypeOKCerrojo
  /\ bienvenida \subseteq Mensajes /\ provisoria \in BOOLEAN /\ habilitado \in BOOLEAN
  /\ mensajes \in [Mensajes -> Filas]
  /\ obra \in [Instancias ->
       [fase : {"nada", "reclamada", "smtp", "guardar"}, mensaje : Mensajes \cup {Nadie},
        resultado : Resultados]]

(* A message that was sent or cancelled stays so: the late result of a     *)
(* claim that lapsed, was taken over or was cancelled meanwhile does not   *)
(* bring it back (the condition of the update in procesar_uno).            *)
FinalEsFinal ==
  [][\A m \in Mensajes : mensajes[m].estado \in Finales => mensajes'[m].estado = mensajes[m].estado]_vars

(* The encrypted provisional password is in the outbox only while the      *)
(* account still has to replace it and its message can still go: it does   *)
(* not outlive the change, the restore or the delivery.                    *)
SecretoConMotivo ==
  \A m \in Mensajes : mensajes[m].secreto => provisoria /\ mensajes[m].estado \in Abiertos

(* A message is delivered twice only if some claim of it lapsed or lost    *)
(* its answer: two executions of the job, which may overlap when its lock  *)
(* lapses, do not both send it.                                            *)
DobleSoloEnDuda == \A m \in Mensajes : mensajes[m].entregas > 1 => mensajes[m].duda

(* What the rest of the portal may count on about one message.             *)
EstadoVisto(m) == IF mensajes[m].estado \in Abiertos THEN "abierto" ELSE mensajes[m].estado

Envio(m) == INSTANCE EntregaDeCorreo WITH
  estado <- EstadoVisto(m), secreto <- mensajes[m].secreto,
  entregas <- mensajes[m].entregas, duda <- mensajes[m].duda

(* Every message keeps EntregaDeCorreo, with executions that overlap, die  *)
(* and answer late, changes of password and restores: it is recorded as    *)
(* sent only if it arrived, and none is sent again unless it is in doubt   *)
(* (_claim, procesar_uno, cancelar_bienvenidas).                           *)
EnviosCumplen ==
  /\ \A m \in Mensajes : Envio(m)!Init
  /\ [][\A m \in Mensajes : [Envio(m)!Next]_(Envio(m)!vars)]_vars

(* No message stays claimed for ever, although executions raise, die and   *)
(* lose their leases.                                                      *)
ReclamoTermina ==
  \A m \in Mensajes : mensajes[m].estado = "enviando" ~> mensajes[m].estado # "enviando"
============================================================================
