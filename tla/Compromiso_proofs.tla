------------------------- MODULE Compromiso_proofs -------------------------
(***************************************************************************)
(* More of the life of one order, for every value of the constants: what a *)
(* suspended order, an open operation, a live service and a running        *)
(* container may count on.  Each rests on the links of Ligaduras and on    *)
(* those stated here.                                                      *)
(***************************************************************************)
EXTENDS CicloServicio_proofs

(* What a run saw of a finished task, or before a repair, still stands:    *)
(* the container only goes away with a removal in flight.                  *)
VistaPresente ==
  corrida.pc = "visto" /\ corrida.para \in {"tarea", "materializar"} /\ Presente
    => ct # "ausente"

(* A live service has its container, or its removal just ended.            *)
VivoConCt ==
  ServicioVivo =>
    /\ LedgerAbierto /\ identidad \notin {"no", "retirada"}
    /\ ct # "ausente" \/ (EnEfecto /\ op.accion = "eliminar" /\ hilo.etapa = "exito")

SinPreparar ==
  \/ pedido.estado \in {"SOLICITADO", "REQUIERE_AJUSTE", "APROBADO"}
  \/ Abierta /\ op.tipo = "desplegar" /\ op.fase = "preparacion"

(* The identity: claimed by one preparation, retired with the operation.   *)
Identidades ==
  /\ Abierta => identidad # "retirada"
  /\ SinPreparar => identidad = "no"
  /\ corrida.pc = "visto" /\ corrida.para = "encendido" => op.accion \in {"iniciar", "reiniciar"}

Compromisos ==
  Identidades /\ ("borra" \notin EXTERNOS => VistaPresente /\ VivoConCt)

(* A container that runs, or was told to, retains compute; so does what    *)
(* may still tell it to.                                                   *)
Enciende == EnVuelo /\ hilo.accion \in {"crear", "iniciar", "reiniciar"}

PorEncender ==
  Abierta /\ op.fase \in {"preparacion", "lista"} /\ op.tipo \in {"desplegar", "iniciar", "reiniciar"}

Computos ==
  /\ ct = "corriendo" \/ Enciende \/ PorEncender => LedgerAbierto /\ ledger.computo
  /\ servicio.estado \in {"no", "RUNNING"} /\ LedgerAbierto => ledger.computo
  /\ corrida.pc = "visto" /\ corrida.obs = "detenido" => ct # "corriendo"

----------------------------------------------------------------------------
(* The two columns of a suspension are written together.                   *)
Suspendible == TypeOK /\ SuspensionConPausa

(* _confirmed writes both.                                                 *)
LEMMA ConfirmarSuspension ==
  ASSUME Suspendible, NEW a, NEW b \in BOOLEAN, Confirmar(a, b)
  PROVE  SuspensionConPausa'
  <1>1. pedido'.estado = PedidoConfirmado(b, EstadoConfirmado(a))
    BY DEF Confirmar, Suspendible, TypeOK, Pedidos
  <1>2. servicio'.pausado = IF EstadoConfirmado(a) = "STOPPED" THEN servicio.pausado
                            ELSE EstadoConfirmado(a) = "PAUSED"
    BY DEF Confirmar
  <1>3. EstadoConfirmado(a) \in {"RUNNING", "PAUSED", "STOPPED"}
    BY DEF EstadoConfirmado
  <1> QED BY <1>1, <1>2, <1>3 DEF PedidoConfirmado, Suspendible, SuspensionConPausa

(* A suspended order keeps the mark of its automatic pause, whoever starts *)
(* or stops the container and whatever is decided meanwhile.               *)
THEOREM SuspensionSiempre == Spec => []SuspensionConPausa
  <1>1. Init => SuspensionConPausa
    BY DEF Init, SuspensionConPausa
  <1>2. Suspendible /\ [Next]_vars => SuspensionConPausa'
    <2> SUFFICES ASSUME Suspendible, [Next]_vars PROVE SuspensionConPausa'
      OBVIOUS
    <2> USE DEF Suspendible, SuspensionConPausa, TypeOK, Pedidos, Servicios
    <2>1. CASE Decision
      <3>1. ASSUME NEW e, NEW b, LiberarPedido(e, b), e # "SUSPENDIDO"
            PROVE  SuspensionConPausa'
        BY <3>1 DEF LiberarPedido
      <3>2. ASSUME NEW i, NEW p, Aprobar(i, p) PROVE SuspensionConPausa'
        BY <3>2 DEF Aprobar
      <3>3. CASE Desplegar \/ AgendaObsoleta \/ AgendaDespacha
        BY <3>3 DEF Desplegar, AgendaObsoleta, AgendaDespacha, EncolarDespliegue
      <3>4. CASE Revertir \/ ExpirarReserva \/ Ajustar \/ DarDeBaja
        BY <3>1, <3>4 DEF Revertir, ExpirarReserva, Ajustar, DarDeBaja, Transicionar
      <3>5. CASE Resolver \/ VerificarAcceso
        BY <3>5 DEF Resolver, VerificarAcceso, Transicionar
      <3>6. CASE Reintentar \/ Iniciar \/ RepararAcceso
        BY <3>6 DEF Reintentar, Reintentable, Transicionar, Iniciar, RepararAcceso
      <3>7. CASE Renovar \/ AplicarVencimiento
        BY <3>7 DEF Renovar, AplicarVencimiento
      <3>8. ASSUME NEW t, AdmitirOrden(t) PROVE SuspensionConPausa'
        BY <3>8 DEF AdmitirOrden
      <3>9. ASSUME NEW c, Sincronizar(c) PROVE SuspensionConPausa'
        BY <3>9 DEF Sincronizar
      <3> HIDE DEF Suspendible, SuspensionConPausa, TypeOK, Pedidos, Servicios
      <3> QED BY <2>1, <3>2, <3>3, <3>4, <3>5, <3>6, <3>7, <3>8, <3>9 DEF Decision
    <2>2. CASE Turno
      <3>1. ASSUME NEW a, NEW b \in BOOLEAN, Confirmar(a, b) PROVE SuspensionConPausa'
        BY <3>1, ConfirmarSuspension
      <3>2. CASE ConfirmarDetenido \/ ConfirmarPorPlazo \/ ConfirmarTarea \/ Entregar
        BY <3>1, <3>2 DEF ConfirmarDetenido, ConfirmarPorPlazo, ConfirmarTarea, Entregar
      <3>3. ASSUME NEW a, Fallar(a) PROVE SuspensionConPausa'
        BY <3>3 DEF Fallar
      <3>4. CASE RechazarPreparacion \/ RechazarCreacion \/ TareaFallida \/ PreparacionFallida
        BY <3>3, <3>4 DEF RechazarPreparacion, RechazarCreacion, TareaFallida, PreparacionFallida
      <3>5. CASE Materializar \/ ConfirmarBaja
        BY <3>5 DEF Materializar, ConfirmarBaja
      <3>6. ASSUME UNCHANGED <<pedido, servicio>> PROVE SuspensionConPausa'
        BY <3>6
      <3>7. CASE Reclamar \/ Ceder \/ PrepararCreacion \/ PrepararOrden \/ EmpezarReparacion \/ Observar
        BY <3>6, <3>7 DEF Reclamar, Ceder, PrepararCreacion, PrepararOrden, EmpezarReparacion, Observar
      <3>8. CASE DespacharCreacion \/ DespacharEncendido \/ DespacharDetencion \/ DespacharEliminacion
        BY <3>6, <3>8 DEF DespacharCreacion, DespacharEncendido, DespacharDetencion,
             DespacharEliminacion, Enviar
      <3>9. CASE TomarUpid \/ SinTarea \/ TareaVencida \/ NoVerificable
        BY <3>6, <3>9 DEF TomarUpid, SinTarea, TareaVencida, NoVerificable, Incierta
      <3>10. CASE RevisarPausa \/ RevisarBaja \/ YaDetenido \/ TareaLograda \/ RevisarCobertura
        BY <3>6, <3>10 DEF RevisarPausa, RevisarBaja, YaDetenido, TareaLograda, RevisarCobertura
      <3> HIDE DEF Suspendible, SuspensionConPausa, TypeOK, Pedidos, Servicios
      <3> QED BY <2>2, <3>2, <3>4, <3>5, <3>7, <3>8, <3>9, <3>10 DEF Turno
    <2>3. CASE Tarea \/ Externo \/ Reloj \/ UNCHANGED vars
      BY <2>3 DEF Tarea, Externo, Reloj, HiloMuere, TareaEmpieza, TareaExito, TareaFalla,
           ExternoApaga, ExternoEnciende, ExternoBorra, NadaMas, Comienza, Vence, CaducaReserva,
           VencePlazo, vars
    <2> HIDE DEF Suspendible, SuspensionConPausa, TypeOK, Pedidos, Servicios
    <2> QED BY <2>1, <2>2, <2>3 DEF Next
  <1>3. TypeOK /\ SuspensionConPausa => Suspendible
    BY DEF Suspendible
  <1> QED BY TiposSiempre, <1>1, <1>2, <1>3, PTL DEF Spec

----------------------------------------------------------------------------
(* The links of open operations and live services: the common parts.       *)

(* A release: nothing lives, nothing is open.                              *)
LEMMA LiberarCompromisos ==
  ASSUME TypeOK, Ligaduras, Compromisos, NEW e \in {"RECHAZADO", "REQUIERE_AJUSTE"}, NEW b \in BOOLEAN,
         LiberarPedido(e, b), Ligaduras'
  PROVE  Compromisos'
  <1> USE DEF TypeOK, Pedidos, EstadosPedido, Ledgers, Servicios, Operaciones, Corridas, Hilos,
         OPEN, Acciones, Miradas, Cts
  <1> USE DEF Ligaduras, CorridaConOrden, FaseDeVista, IdentidadAntesDelEnvio, UnaCreacion,
         OrdenRespaldada, PorCrear, EnEfecto, PuedeExistir, EnVuelo, Abierta, LedgerAbierto
  <1> USE DEF Compromisos, Identidades, SinPreparar, VistaPresente, VivoConCt, Presente, ServicioVivo
  <1>1. hilo.etapa = "no" /\ servicio.estado = "no" /\ UNCHANGED <<identidad, servicio, hilo, ct>>
    BY DEF LiberarPedido, Liberable
  <1>2. SinPreparar
    BY <1>1 DEF LiberarPedido, Liberable
  <1>3. ~Abierta' /\ corrida'.pc = "libre"
    <2>1. ~LedgerAbierto'
      BY DEF LiberarPedido, LedgerLiberado
    <2>2. corrida'.pc = "libre"
      BY DEF LiberarPedido, SinCorrida
    <2> QED BY <2>1, <2>2
  <1> QED BY <1>1, <1>2, <1>3

(* A deferral retires nothing.                                             *)
LEMMA IncierteCompromisos ==
  ASSUME TypeOK, Ligaduras, Compromisos, corrida.pc # "libre", Incierta
  PROVE  Compromisos'
  <1> USE DEF TypeOK, Pedidos, EstadosPedido, Ledgers, Servicios, Operaciones, Corridas, Hilos,
         OPEN, Acciones, Miradas, Cts
  <1> USE DEF Ligaduras, CorridaConOrden, FaseDeVista, IdentidadAntesDelEnvio, UnaCreacion,
         OrdenRespaldada, PorCrear, EnEfecto, PuedeExistir, EnVuelo, Abierta, LedgerAbierto
  <1> USE DEF Compromisos, Identidades, SinPreparar, VistaPresente, VivoConCt, Presente, ServicioVivo
  <1> QED BY DEF Incierta, OrdenIncierta, LedgerIncierto, SinCorrida

(* A failure retires only what a live service does not have.               *)
LEMMA FallarCompromisos ==
  ASSUME TypeOK, Ligaduras, Compromisos, NEW ausente \in BOOLEAN, corrida.pc # "libre", ~EnVuelo,
         ausente => ct = "ausente" /\ hilo.etapa # "exito",
         EnEfecto => op.accion # "eliminar" \/ hilo.etapa # "exito",
         Fallar(ausente)
  PROVE  Compromisos'
  <1> USE DEF TypeOK, Pedidos, EstadosPedido, Ledgers, Servicios, Operaciones, Corridas, Hilos,
         OPEN, Acciones, Miradas, Cts
  <1> USE DEF Ligaduras, CorridaConOrden, FaseDeVista, IdentidadAntesDelEnvio, UnaCreacion,
         OrdenRespaldada, PorCrear, EnEfecto, PuedeExistir, EnVuelo, Abierta, LedgerAbierto
  <1> USE DEF Compromisos, Identidades, SinPreparar, VistaPresente, VivoConCt, Presente, ServicioVivo
  <1>1. ~Abierta' /\ corrida'.pc = "libre" /\ UNCHANGED <<servicio, hilo, ct>>
    BY DEF Fallar, SinCorrida
  <1>2. identidad = "no" => identidad' = "no"
    BY DEF Fallar
  <1>3. pedido'.estado \in {"SOLICITADO", "REQUIERE_AJUSTE", "APROBADO"} => pedido'.estado = pedido.estado
    BY DEF Fallar
  <1>4. "borra" \notin EXTERNOS /\ ServicioVivo => ct # "ausente" /\ ~ausente
    OBVIOUS
  <1>5. "borra" \notin EXTERNOS /\ ServicioVivo => LedgerAbierto' /\ identidad' \notin {"no", "retirada"}
    BY <1>4 DEF Fallar, LiberaAlFallar, LedgerIncierto
  <1> QED BY <1>1, <1>2, <1>3, <1>4, <1>5

(* The mark before a POST: the live service still has its container.       *)
LEMMA EnviarCompromisos ==
  ASSUME TypeOK, Ligaduras, Compromisos, NEW a \in Acciones, corrida.pc # "libre", op.fase # "preparacion",
         ~EnEfecto, Enviar(a)
  PROVE  Compromisos'
  <1> USE DEF TypeOK, Pedidos, EstadosPedido, Ledgers, Servicios, Operaciones, Corridas, Hilos,
         OPEN, Acciones, Miradas, Cts
  <1> USE DEF Ligaduras, CorridaConOrden, FaseDeVista, IdentidadAntesDelEnvio, UnaCreacion,
         OrdenRespaldada, PorCrear, EnEfecto, PuedeExistir, EnVuelo, Abierta, LedgerAbierto
  <1> USE DEF Compromisos, Identidades, SinPreparar, VistaPresente, VivoConCt, Presente, ServicioVivo
  <1>1. op'.estado = op.estado /\ op'.fase = "dispatch_started" /\ op'.tipo = op.tipo
    BY DEF Enviar
  <1>2. corrida'.pc = "espera" /\ UNCHANGED <<pedido, ledger, identidad, servicio, ct>>
    BY DEF Enviar, SinCorrida
  <1> QED BY <1>1, <1>2

(* A confirmation leaves the service with its container and its rows.      *)
LEMMA ConfirmarCompromisos ==
  ASSUME TypeOK, Ligaduras, Compromisos, NEW a \in Acciones \cup {"bootstrap"}, NEW b \in BOOLEAN,
         corrida.pc # "libre", EnEfecto => op.accion # "eliminar", Confirmar(a, b)
  PROVE  Compromisos'
  <1> USE DEF TypeOK, Pedidos, EstadosPedido, Ledgers, Servicios, Operaciones, Corridas, Hilos,
         OPEN, Acciones, Miradas, Cts
  <1> USE DEF Ligaduras, CorridaConOrden, FaseDeVista, IdentidadAntesDelEnvio, UnaCreacion,
         OrdenRespaldada, PorCrear, EnEfecto, PuedeExistir, EnVuelo, Abierta, LedgerAbierto
  <1> USE DEF Compromisos, Identidades, SinPreparar, VistaPresente, VivoConCt, Presente, ServicioVivo
  <1>1. ~Abierta' /\ corrida'.pc = "libre" /\ UNCHANGED <<hilo, ct>> /\ identidad' = "materializada"
    BY DEF Confirmar, SinCorrida
  <1>2. ledger'.estado = "materializado" /\ hilo.etapa # "no" /\ ServicioVivo
    BY DEF Confirmar, LedgerMaterializado
  <1>3. pedido'.estado \notin {"SOLICITADO", "REQUIERE_AJUSTE", "APROBADO"}
    BY <1>2 DEF Confirmar, PedidoConfirmado
  <1> QED BY <1>1, <1>2, <1>3

----------------------------------------------------------------------------
(* A decision keeps these links.                                           *)
LEMMA DecisionCompromisos ==
  ASSUME TypeOK, Ligaduras, Compromisos, Decision, Ligaduras'
  PROVE  Compromisos'
  <1> USE DEF TypeOK, Pedidos, EstadosPedido, Ledgers, Servicios, Operaciones, Corridas, Hilos,
         OPEN, Acciones, Miradas, Cts
  <1> USE DEF Ligaduras, CorridaConOrden, FaseDeVista, IdentidadAntesDelEnvio, UnaCreacion,
         OrdenRespaldada, PorCrear, EnEfecto, PuedeExistir, EnVuelo, Abierta, LedgerAbierto
  <1> USE DEF Compromisos, Identidades, SinPreparar, VistaPresente, VivoConCt, Presente, ServicioVivo
  <1>1. CASE Desplegar
    BY <1>1 DEF Desplegar, EncolarDespliegue, NuevaOrden
  <1>2. CASE AgendaObsoleta
    BY <1>2 DEF AgendaObsoleta
  <1>3. CASE AgendaDespacha
    BY <1>3 DEF AgendaDespacha, EncolarDespliegue, NuevaOrden
  <1>4. CASE Revertir
    BY <1>4, LiberarCompromisos DEF Revertir
  <1>5. CASE ExpirarReserva
    BY <1>5, LiberarCompromisos DEF ExpirarReserva
  <1>6. CASE Ajustar
    <2>1. CASE LiberarPedido("REQUIERE_AJUSTE", FALSE)
      BY <2>1, LiberarCompromisos
    <2>2. CASE ~LiberarPedido("REQUIERE_AJUSTE", FALSE)
      BY <1>6, <2>2 DEF Ajustar, Transicionar
    <2> QED BY <2>1, <2>2
  <1>7. CASE DarDeBaja
    <2>1. CASE LiberarPedido("RECHAZADO", TRUE)
      BY <2>1, LiberarCompromisos
    <2>2. CASE ~LiberarPedido("RECHAZADO", TRUE)
      <3>1. /\ ~Abierta /\ pedido' = [pedido EXCEPT !.baja = TRUE]
            /\ UNCHANGED <<ledger, identidad, servicio, op, corrida, hilo, ct>>
        BY <1>7, <2>2 DEF DarDeBaja
      <3> QED BY <3>1
    <2> QED BY <2>1, <2>2
  <1>8. CASE Resolver
    BY <1>8 DEF Resolver, Transicionar
  <1>9. CASE Reintentar
    BY <1>9 DEF Reintentar, Reintentable, Transicionar, NuevaOrden
  <1>10. CASE Iniciar
    BY <1>10 DEF Iniciar, Operable, ServicioVivo, NuevaOrden
  <1>11. CASE RepararAcceso
    BY <1>11 DEF RepararAcceso, Operable, ServicioVivo, NuevaOrden
  <1>12. CASE VerificarAcceso
    BY <1>12 DEF VerificarAcceso, Transicionar
  <1>13. CASE Renovar
    BY <1>13 DEF Renovar
  <1>14. CASE AplicarVencimiento
    BY <1>14 DEF AplicarVencimiento, PorPausar, Operable, ServicioVivo, NuevaOrden
  <1>15. ASSUME NEW i \in {"manual", "inmediato", "programado"}, NEW p \in {"futura", "vigente"}, Aprobar(i, p)
        PROVE  Compromisos'
    BY <1>15 DEF Aprobar, NuevaOrden, LedgerReservado
  <1>16. ASSUME NEW t \in ORDENES \ {"iniciar", "reparar"}, AdmitirOrden(t)
         PROVE  Compromisos'
    BY <1>16, ConstantesAssumption DEF AdmitirOrden, Operable, NuevaOrden, TodasLasOrdenes
  <1>17. ASSUME NEW c \in BOOLEAN, Sincronizar(c)
         PROVE  Compromisos'
    BY <1>17 DEF Sincronizar, Operable, LedgerMaterializado, LedgerIncierto
  <1> HIDE DEF TypeOK, Pedidos, EstadosPedido, Ledgers, Servicios, Operaciones, Corridas, Hilos,
         OPEN, Acciones, Miradas, Cts, Ligaduras, CorridaConOrden, FaseDeVista,
         IdentidadAntesDelEnvio, UnaCreacion, OrdenRespaldada, PorCrear, EnEfecto, PuedeExistir,
         EnVuelo, Abierta, LedgerAbierto, Compromisos, Identidades, SinPreparar, VistaPresente,
         VivoConCt, Presente, ServicioVivo
  <1> QED BY <1>1, <1>2, <1>3, <1>4, <1>5, <1>6, <1>7, <1>8, <1>9, <1>10, <1>11, <1>12, <1>13,
         <1>14, <1>15, <1>16, <1>17 DEF Decision

(* A step of the executor keeps them.                                      *)
LEMMA TurnoCompromisos ==
  ASSUME TypeOK, Ligaduras, Compromisos, Turno, Ligaduras'
  PROVE  Compromisos'
  <1> USE DEF TypeOK, Pedidos, EstadosPedido, Ledgers, Servicios, Operaciones, Corridas, Hilos,
         OPEN, Acciones, Miradas, Cts
  <1> USE DEF Ligaduras, CorridaConOrden, FaseDeVista, IdentidadAntesDelEnvio, UnaCreacion,
         OrdenRespaldada, PorCrear, EnEfecto, PuedeExistir, EnVuelo, Abierta, LedgerAbierto
  <1> USE DEF Compromisos, Identidades, SinPreparar, VistaPresente, VivoConCt, Presente, ServicioVivo
  <1>1. CASE Reclamar
    BY <1>1 DEF Reclamar, SinCorrida
  <1>2. CASE Ceder
    BY <1>2 DEF Ceder, SinCorrida
  <1>3. CASE PrepararCreacion
    BY <1>3 DEF PrepararCreacion, EnTurno, Sigue, SinCorrida
  <1>4. CASE RechazarPreparacion
    BY <1>4, FallarCompromisos DEF RechazarPreparacion, EnTurno
  <1>5. CASE PrepararOrden
    BY <1>5 DEF PrepararOrden, EnTurno, Sigue, SinCorrida
  <1>6. CASE EmpezarReparacion
    BY <1>6 DEF EmpezarReparacion, EnTurno, Sigue, SinCorrida
  <1>7. CASE Observar
    <2>1. PICK para \in Miradas, obs \in {ct, "ajena"} :
            Mira(para) /\ corrida' = [pc |-> "visto", para |-> para, obs |-> obs]
      BY <1>7 DEF Observar
    <2>2. UNCHANGED <<pedido, ledger, identidad, servicio, op, hilo, ct>>
      BY <1>7 DEF Observar
    <2>3. para # "encendido"
      BY <2>1 DEF Mira, EnTurno, MiraEnLista
    <2> QED BY <2>1, <2>2, <2>3
  <1>8. CASE DespacharCreacion
    BY <1>8, EnviarCompromisos DEF DespacharCreacion, EnTurno
  <1>9. CASE RechazarCreacion
    BY <1>9, FallarCompromisos DEF RechazarCreacion, EnTurno
  <1>10. CASE DespacharEncendido
    BY <1>10, EnviarCompromisos DEF DespacharEncendido, EnTurno
  <1>11. CASE DespacharDetencion
    BY <1>11, EnviarCompromisos DEF DespacharDetencion, Visto
  <1>12. CASE DespacharEliminacion
    BY <1>12, EnviarCompromisos DEF DespacharEliminacion, EnTurno, Visto
  <1>13. CASE TomarUpid
    BY <1>13 DEF TomarUpid, EnTurno, Sigue, SinCorrida
  <1>14. CASE SinTarea
    BY <1>14, IncierteCompromisos DEF SinTarea, EnTurno
  <1>15. CASE TareaVencida
    BY <1>15, IncierteCompromisos DEF TareaVencida, EnTurno
  <1>16. CASE Materializar
    BY <1>16 DEF Materializar, Visto, Sigue, SinCorrida, LedgerMaterializado
  <1>17. CASE RevisarPausa
    BY <1>17 DEF RevisarPausa, Visto, SinCorrida
  <1>18. CASE RevisarBaja
    BY <1>18 DEF RevisarBaja, Visto, SinCorrida
  <1>19. CASE YaDetenido
    BY <1>19 DEF YaDetenido, Visto, Sigue, SinCorrida
  <1>20. CASE ConfirmarDetenido
    BY <1>20, ConfirmarCompromisos DEF ConfirmarDetenido, Visto
  <1>21. CASE ConfirmarPorPlazo
    BY <1>21, ConfirmarCompromisos DEF ConfirmarPorPlazo, Visto
  <1>22. CASE TareaFallida
    BY <1>22, FallarCompromisos DEF TareaFallida, Visto
  <1>23. CASE TareaLograda
    BY <1>23 DEF TareaLograda, Visto, VistoPara, Sigue, SinCorrida
  <1>24. CASE ConfirmarTarea
    BY <1>24, ConfirmarCompromisos DEF ConfirmarTarea, Visto
  <1>25. CASE ConfirmarBaja
    BY <1>25 DEF ConfirmarBaja, Visto, LedgerLiberado, SinCorrida
  <1>26. CASE RevisarCobertura
    BY <1>26 DEF RevisarCobertura, Visto, VistoPara, Sigue, SinCorrida
  <1>27. CASE PreparacionFallida
    BY <1>27, FallarCompromisos DEF PreparacionFallida
  <1>28. CASE Entregar
    BY <1>28, ConfirmarCompromisos DEF Entregar, Visto
  <1>29. CASE NoVerificable
    BY <1>29, IncierteCompromisos DEF NoVerificable, Lee, Mira, EnTurno
  <1> HIDE DEF TypeOK, Pedidos, EstadosPedido, Ledgers, Servicios, Operaciones, Corridas, Hilos,
         OPEN, Acciones, Miradas, Cts, Ligaduras, CorridaConOrden, FaseDeVista,
         IdentidadAntesDelEnvio, UnaCreacion, OrdenRespaldada, PorCrear, EnEfecto, PuedeExistir,
         EnVuelo, Abierta, LedgerAbierto, Compromisos, Identidades, SinPreparar, VistaPresente,
         VivoConCt, Presente, ServicioVivo
  <1> QED BY Zenon, <1>1, <1>2, <1>3, <1>4, <1>5, <1>6, <1>7, <1>8, <1>9, <1>10, <1>11, <1>12, <1>13,
         <1>14, <1>15, <1>16, <1>17, <1>18, <1>19, <1>20, <1>21, <1>22, <1>23, <1>24, <1>25,
         <1>26, <1>27, <1>28, <1>29 DEF Turno

(* The environment keeps them: only a removal in flight, or an operator,   *)
(* makes a container go away.                                              *)
LEMMA EntornoCompromisos ==
  ASSUME TypeOK, Ligaduras, Compromisos, Tarea \/ Externo \/ Reloj
  PROVE  Compromisos'
  <1> USE DEF TypeOK, Pedidos, EstadosPedido, Ledgers, Servicios, Operaciones, Corridas, Hilos,
         OPEN, Acciones, Miradas, Cts
  <1> USE DEF Ligaduras, CorridaConOrden, FaseDeVista, IdentidadAntesDelEnvio, UnaCreacion,
         OrdenRespaldada, PorCrear, EnEfecto, PuedeExistir, EnVuelo, Abierta, LedgerAbierto
  <1> USE DEF Compromisos, Identidades, SinPreparar, VistaPresente, VivoConCt, Presente, ServicioVivo
  <1>1. CASE HiloMuere
    BY <1>1 DEF HiloMuere, NadaMas
  <1>2. CASE TareaEmpieza
    BY <1>2 DEF TareaEmpieza, NadaMas
  <1>3. CASE TareaExito
    BY <1>3 DEF TareaExito, Efecto, NadaMas
  <1>4. CASE TareaFalla
    BY <1>4 DEF TareaFalla, NadaMas
  <1>5. CASE ExternoApaga
    BY <1>5 DEF ExternoApaga, NadaMas
  <1>6. CASE ExternoEnciende
    BY <1>6 DEF ExternoEnciende, NadaMas
  <1>7. CASE ExternoBorra
    BY <1>7 DEF ExternoBorra, NadaMas
  <1>8. CASE Comienza
    BY <1>8 DEF Comienza
  <1>9. CASE Vence
    BY <1>9 DEF Vence
  <1>10. CASE CaducaReserva
    BY <1>10 DEF CaducaReserva
  <1>11. CASE VencePlazo
    BY <1>11 DEF VencePlazo
  <1> HIDE DEF TypeOK, Pedidos, EstadosPedido, Ledgers, Servicios, Operaciones, Corridas, Hilos,
         OPEN, Acciones, Miradas, Cts, Ligaduras, CorridaConOrden, FaseDeVista,
         IdentidadAntesDelEnvio, UnaCreacion, OrdenRespaldada, PorCrear, EnEfecto, PuedeExistir,
         EnVuelo, Abierta, LedgerAbierto, Compromisos, Identidades, SinPreparar, VistaPresente,
         VivoConCt, Presente, ServicioVivo
  <1> QED BY <1>1, <1>2, <1>3, <1>4, <1>5, <1>6, <1>7, <1>8, <1>9, <1>10, <1>11 DEF Tarea, Externo,
         Reloj

(* An open operation never loses its reservation or its identity, and a    *)
(* live service never loses its ledger unless an operator deletes its      *)
(* container: the executor's branches for those cases are unreachable.     *)
THEOREM CompromisoSiempre == Spec => []CompromisoVigente
  <1>1. Init => Compromisos
    BY DEF Init, SinCorrida, Compromisos, Identidades, SinPreparar, VistaPresente, VivoConCt,
       ServicioVivo, Abierta, OPEN
  <1>2. TypeOK /\ Ligaduras /\ Ligaduras' /\ Compromisos /\ [Next]_vars => Compromisos'
    <2> SUFFICES ASSUME TypeOK, Ligaduras, Ligaduras', Compromisos, [Next]_vars PROVE Compromisos'
      OBVIOUS
    <2>1. CASE Next
      BY <2>1, DecisionCompromisos, TurnoCompromisos, EntornoCompromisos DEF Next
    <2>2. CASE UNCHANGED vars
      BY <2>2 DEF vars, Compromisos, Identidades, SinPreparar, VistaPresente, VivoConCt, Presente,
         ServicioVivo, EnEfecto, Abierta, LedgerAbierto
    <2> QED BY <2>1, <2>2
  <1>3. Ligaduras /\ Compromisos => CompromisoVigente
    BY DEF Ligaduras, IdentidadAntesDelEnvio, OrdenRespaldada, Compromisos, Identidades, VivoConCt,
       CompromisoVigente
  <1> QED BY TiposSiempre, LigadurasSiempre, <1>1, <1>2, <1>3, PTL DEF Spec

----------------------------------------------------------------------------
(* Where nobody acts on Proxmox but NAP, compute is never given back while *)
(* the container runs or may be told to: the common parts.                 *)

(* A release: there is no container, and no start waits.                   *)
LEMMA LiberarComputos ==
  ASSUME TypeOK, Ligaduras, Computos, NEW e \in {"RECHAZADO", "REQUIERE_AJUSTE"}, NEW b \in BOOLEAN,
         LiberarPedido(e, b), Ligaduras'
  PROVE  Computos'
  <1> USE DEF TypeOK, Pedidos, EstadosPedido, Ledgers, Servicios, Operaciones, Corridas, Hilos,
         OPEN, Acciones, Miradas, Cts
  <1> USE DEF Ligaduras, CorridaConOrden, FaseDeVista, IdentidadAntesDelEnvio, UnaCreacion,
         OrdenRespaldada, PorCrear, EnEfecto, PuedeExistir, EnVuelo, Abierta, LedgerAbierto
  <1> USE DEF Computos, Enciende, PorEncender
  <1>1. ~LedgerAbierto' /\ corrida'.pc = "libre"
    BY DEF LiberarPedido, LedgerLiberado, SinCorrida
  <1>2. ~Abierta' /\ ~EnVuelo' /\ ct' = "ausente"
    BY <1>1
  <1> QED BY <1>1, <1>2

(* A deferral gives nothing back.                                          *)
LEMMA IncierteComputos ==
  ASSUME TypeOK, Ligaduras, Computos, corrida.pc # "libre", Incierta
  PROVE  Computos'
  <1> USE DEF TypeOK, Pedidos, EstadosPedido, Ledgers, Servicios, Operaciones, Corridas, Hilos,
         OPEN, Acciones, Miradas, Cts
  <1> USE DEF Ligaduras, CorridaConOrden, FaseDeVista, IdentidadAntesDelEnvio, UnaCreacion,
         OrdenRespaldada, PorCrear, EnEfecto, PuedeExistir, EnVuelo, Abierta, LedgerAbierto
  <1> USE DEF Computos, Enciende, PorEncender
  <1> QED BY DEF Incierta, OrdenIncierta, LedgerIncierto, SinCorrida

(* A failure gives back everything, of what is not there, or nothing.      *)
LEMMA FallarComputos ==
  ASSUME TypeOK, Ligaduras, Computos, NEW ausente \in BOOLEAN, corrida.pc # "libre",
         Fallar(ausente), Ligaduras'
  PROVE  Computos'
  <1> USE DEF TypeOK, Pedidos, EstadosPedido, Ledgers, Servicios, Operaciones, Corridas, Hilos,
         OPEN, Acciones, Miradas, Cts
  <1> USE DEF Ligaduras, CorridaConOrden, FaseDeVista, IdentidadAntesDelEnvio, UnaCreacion,
         OrdenRespaldada, PorCrear, EnEfecto, PuedeExistir, EnVuelo, Abierta, LedgerAbierto
  <1> USE DEF Computos, Enciende, PorEncender
  <1>1. ~Abierta' /\ corrida'.pc = "libre" /\ UNCHANGED <<servicio, hilo, ct>>
    BY DEF Fallar, SinCorrida
  <1>2. LedgerAbierto' => ledger'.computo = ledger.computo
    BY DEF Fallar, LedgerIncierto, LedgerLiberado
  <1>3. ~EnVuelo' /\ (ct' # "ausente" => LedgerAbierto')
    BY <1>1
  <1> QED BY <1>1, <1>2, <1>3

(* The mark before the POST of a start: its compute is retained.           *)
LEMMA EnviarComputos ==
  ASSUME TypeOK, Ligaduras, Computos, NEW a \in Acciones, corrida.pc # "libre",
         a \in {"crear", "iniciar", "reiniciar"} => PorEncender, Enviar(a)
  PROVE  Computos'
  <1> USE DEF TypeOK, Pedidos, EstadosPedido, Ledgers, Servicios, Operaciones, Corridas, Hilos,
         OPEN, Acciones, Miradas, Cts
  <1> USE DEF Ligaduras, CorridaConOrden, FaseDeVista, IdentidadAntesDelEnvio, UnaCreacion,
         OrdenRespaldada, PorCrear, EnEfecto, PuedeExistir, EnVuelo, Abierta, LedgerAbierto
  <1> USE DEF Computos, Enciende, PorEncender
  <1>1. op'.estado = op.estado /\ op'.fase = "dispatch_started"
    BY DEF Enviar
  <1>2. corrida'.pc = "espera" /\ hilo'.accion = a /\ UNCHANGED <<ledger, servicio, ct>>
    BY DEF Enviar, SinCorrida
  <1> QED BY <1>1, <1>2

(* A confirmation gives compute back only of what was seen stopped.        *)
LEMMA ConfirmarComputos ==
  ASSUME TypeOK, Ligaduras, Computos, NEW a \in Acciones \cup {"bootstrap"}, NEW b \in BOOLEAN,
         corrida.pc = "visto", Confirmar(a, b), Ligaduras'
  PROVE  Computos'
  <1> USE DEF TypeOK, Pedidos, EstadosPedido, Ledgers, Servicios, Operaciones, Corridas, Hilos,
         OPEN, Acciones, Miradas, Cts
  <1> USE DEF Ligaduras, CorridaConOrden, FaseDeVista, IdentidadAntesDelEnvio, UnaCreacion,
         OrdenRespaldada, PorCrear, EnEfecto, PuedeExistir, EnVuelo, Abierta, LedgerAbierto
  <1> USE DEF Computos, Enciende, PorEncender
  <1>1. ~Abierta' /\ corrida'.pc = "libre" /\ UNCHANGED <<hilo, ct>>
    BY DEF Confirmar, SinCorrida
  <1>2. LedgerAbierto' /\ ledger'.computo = (a # "detener")
    BY DEF Confirmar, LedgerMaterializado
  <1>3. a = "detener" => ct # "corriendo" /\ servicio'.estado \in {"PAUSED", "STOPPED"}
    BY DEF Confirmar, ObsConfirma, EstadoConfirmado
  <1> QED BY <1>1, <1>2, <1>3

----------------------------------------------------------------------------
(* A decision keeps compute retained.                                      *)
LEMMA DecisionComputos ==
  ASSUME TypeOK, Ligaduras, Computos, Decision, Ligaduras'
  PROVE  Computos'
  <1> USE DEF TypeOK, Pedidos, EstadosPedido, Ledgers, Servicios, Operaciones, Corridas, Hilos,
         OPEN, Acciones, Miradas, Cts
  <1> USE DEF Ligaduras, CorridaConOrden, FaseDeVista, IdentidadAntesDelEnvio, UnaCreacion,
         OrdenRespaldada, PorCrear, EnEfecto, PuedeExistir, EnVuelo, Abierta, LedgerAbierto
  <1> USE DEF Computos, Enciende, PorEncender
  <1>1. CASE Desplegar
    BY <1>1 DEF Desplegar, EncolarDespliegue, NuevaOrden
  <1>2. CASE AgendaObsoleta
    BY <1>2 DEF AgendaObsoleta
  <1>3. CASE AgendaDespacha
    BY <1>3 DEF AgendaDespacha, EncolarDespliegue, NuevaOrden
  <1>4. CASE Revertir
    BY <1>4, LiberarComputos DEF Revertir
  <1>5. CASE ExpirarReserva
    BY <1>5, LiberarComputos DEF ExpirarReserva
  <1>6. CASE Ajustar
    <2>1. CASE LiberarPedido("REQUIERE_AJUSTE", FALSE)
      BY <2>1, LiberarComputos
    <2>2. CASE ~LiberarPedido("REQUIERE_AJUSTE", FALSE)
      BY <1>6, <2>2 DEF Ajustar, Transicionar
    <2> QED BY <2>1, <2>2
  <1>7. CASE DarDeBaja
    <2>1. CASE LiberarPedido("RECHAZADO", TRUE)
      BY <2>1, LiberarComputos
    <2>2. CASE ~LiberarPedido("RECHAZADO", TRUE)
      <3>1. /\ ~Abierta /\ pedido' = [pedido EXCEPT !.baja = TRUE]
            /\ UNCHANGED <<ledger, identidad, servicio, op, corrida, hilo, ct>>
        BY <1>7, <2>2 DEF DarDeBaja
      <3> QED BY <3>1
    <2> QED BY <2>1, <2>2
  <1>8. CASE Resolver
    BY <1>8 DEF Resolver, Transicionar
  <1>9. CASE Reintentar
    BY <1>9 DEF Reintentar, Reintentable, Transicionar, NuevaOrden
  <1>10. CASE Iniciar
    BY <1>10 DEF Iniciar, Operable, ServicioVivo, NuevaOrden
  <1>11. CASE RepararAcceso
    BY <1>11 DEF RepararAcceso, Operable, ServicioVivo, NuevaOrden
  <1>12. CASE VerificarAcceso
    BY <1>12 DEF VerificarAcceso, Transicionar
  <1>13. CASE Renovar
    BY <1>13 DEF Renovar
  <1>14. CASE AplicarVencimiento
    BY <1>14 DEF AplicarVencimiento, PorPausar, Operable, ServicioVivo, NuevaOrden
  <1>15. ASSUME NEW i \in {"manual", "inmediato", "programado"}, NEW p \in {"futura", "vigente"}, Aprobar(i, p)
        PROVE  Computos'
    BY <1>15 DEF Aprobar, NuevaOrden, LedgerReservado
  <1>16. ASSUME NEW t \in ORDENES \ {"iniciar", "reparar"}, AdmitirOrden(t)
         PROVE  Computos'
    BY <1>16, ConstantesAssumption DEF AdmitirOrden, Operable, OrdenPermitida, ServicioVivo, NuevaOrden, TodasLasOrdenes
  <1>17. ASSUME NEW c \in BOOLEAN, Sincronizar(c)
         PROVE  Computos'
    BY <1>17 DEF Sincronizar, Operable, ServicioVivo, LedgerMaterializado, LedgerIncierto
  <1> HIDE DEF TypeOK, Pedidos, EstadosPedido, Ledgers, Servicios, Operaciones, Corridas, Hilos,
         OPEN, Acciones, Miradas, Cts, Ligaduras, CorridaConOrden, FaseDeVista,
         IdentidadAntesDelEnvio, UnaCreacion, OrdenRespaldada, PorCrear, EnEfecto, PuedeExistir,
         EnVuelo, Abierta, LedgerAbierto, Computos, Enciende, PorEncender
  <1> QED BY <1>1, <1>2, <1>3, <1>4, <1>5, <1>6, <1>7, <1>8, <1>9, <1>10, <1>11, <1>12, <1>13,
         <1>14, <1>15, <1>16, <1>17 DEF Decision

(* A step of the executor keeps it retained.                               *)
LEMMA TurnoComputos ==
  ASSUME TypeOK, Ligaduras, Computos, Turno, Ligaduras'
  PROVE  Computos'
  <1> USE DEF TypeOK, Pedidos, EstadosPedido, Ledgers, Servicios, Operaciones, Corridas, Hilos,
         OPEN, Acciones, Miradas, Cts
  <1> USE DEF Ligaduras, CorridaConOrden, FaseDeVista, IdentidadAntesDelEnvio, UnaCreacion,
         OrdenRespaldada, PorCrear, EnEfecto, PuedeExistir, EnVuelo, Abierta, LedgerAbierto
  <1> USE DEF Computos, Enciende, PorEncender
  <1>1. CASE Reclamar
    BY <1>1 DEF Reclamar, SinCorrida
  <1>2. CASE Ceder
    BY <1>2 DEF Ceder, SinCorrida
  <1>3. CASE PrepararCreacion
    BY <1>3 DEF PrepararCreacion, EnTurno, Sigue, SinCorrida
  <1>4. CASE RechazarPreparacion
    BY <1>4, FallarComputos DEF RechazarPreparacion, EnTurno
  <1>5. CASE PrepararOrden
    BY <1>5 DEF PrepararOrden, EnTurno, Sigue, SinCorrida
  <1>6. CASE EmpezarReparacion
    BY <1>6 DEF EmpezarReparacion, EnTurno, Sigue, SinCorrida
  <1>7. CASE Observar
    <2>1. PICK para \in Miradas, obs \in {ct, "ajena"} :
            Mira(para) /\ corrida' = [pc |-> "visto", para |-> para, obs |-> obs]
      BY <1>7 DEF Observar
    <2>2. UNCHANGED <<pedido, ledger, identidad, servicio, op, hilo, ct>>
      BY <1>7 DEF Observar
    <2>3. para # "encendido"
      BY <2>1 DEF Mira, EnTurno, MiraEnLista
    <2> QED BY <2>1, <2>2, <2>3
  <1>8. CASE DespacharCreacion
    BY <1>8, EnviarComputos DEF DespacharCreacion, EnTurno
  <1>9. CASE RechazarCreacion
    BY <1>9, FallarComputos DEF RechazarCreacion, EnTurno
  <1>10. CASE DespacharEncendido
    BY <1>10, EnviarComputos DEF DespacharEncendido, EnTurno
  <1>11. CASE DespacharDetencion
    BY <1>11, EnviarComputos DEF DespacharDetencion, Visto
  <1>12. CASE DespacharEliminacion
    BY <1>12, EnviarComputos DEF DespacharEliminacion, EnTurno, Visto
  <1>13. CASE TomarUpid
    BY <1>13 DEF TomarUpid, EnTurno, Sigue, SinCorrida
  <1>14. CASE SinTarea
    BY <1>14, IncierteComputos DEF SinTarea, EnTurno
  <1>15. CASE TareaVencida
    BY <1>15, IncierteComputos DEF TareaVencida, EnTurno
  <1>16. CASE Materializar
    BY <1>16 DEF Materializar, Visto, Sigue, SinCorrida, LedgerMaterializado
  <1>17. CASE RevisarPausa
    <2>1. CASE Cubierto /\ corrida.obs = "corriendo"
      <3>1. /\ op' = [op EXCEPT !.estado = "confirmada", !.fase = "verificacion"]
            /\ ledger' = [ledger EXCEPT !.computo = TRUE] /\ corrida' = SinCorrida
            /\ UNCHANGED <<servicio, hilo, ct>>
        BY <1>17, <2>1 DEF RevisarPausa
      <3>2. ~Abierta' /\ ~EnVuelo' /\ corrida'.pc = "libre" /\ ledger'.computo
            /\ (ct' # "ausente" => LedgerAbierto')
        BY <3>1 DEF SinCorrida
      <3> QED BY <3>1, <3>2
    <2>2. CASE ~(Cubierto /\ corrida.obs = "corriendo")
      <3>1. /\ corrida' = [SinCorrida EXCEPT !.pc = "turno", !.para = "detener"]
            /\ UNCHANGED <<ledger, servicio, op, hilo, ct>>
        BY <1>17, <2>2 DEF RevisarPausa
      <3>2. corrida'.pc = "turno"
        BY <3>1 DEF SinCorrida
      <3> QED BY <3>1, <3>2
    <2> QED BY <2>1, <2>2
  <1>18. CASE RevisarBaja
    BY <1>18 DEF RevisarBaja, Visto, SinCorrida
  <1>19. CASE YaDetenido
    BY <1>19 DEF YaDetenido, Visto, Sigue, SinCorrida
  <1>20. CASE ConfirmarDetenido
    BY <1>20, ConfirmarComputos DEF ConfirmarDetenido, Visto
  <1>21. CASE ConfirmarPorPlazo
    BY <1>21, ConfirmarComputos DEF ConfirmarPorPlazo, Visto
  <1>22. CASE TareaFallida
    BY <1>22, FallarComputos DEF TareaFallida, Visto
  <1>23. CASE TareaLograda
    BY <1>23 DEF TareaLograda, Visto, VistoPara, Sigue, SinCorrida
  <1>24. CASE ConfirmarTarea
    BY <1>24, ConfirmarComputos DEF ConfirmarTarea, Visto
  <1>25. CASE ConfirmarBaja
    BY <1>25 DEF ConfirmarBaja, Visto, LedgerLiberado, SinCorrida
  <1>26. CASE RevisarCobertura
    BY <1>26 DEF RevisarCobertura, Visto, VistoPara, Sigue, SinCorrida
  <1>27. CASE PreparacionFallida
    BY <1>27, FallarComputos DEF PreparacionFallida
  <1>28. CASE Entregar
    BY <1>28, ConfirmarComputos DEF Entregar, Visto
  <1>29. CASE NoVerificable
    BY <1>29, IncierteComputos DEF NoVerificable, Lee, Mira, EnTurno
  <1> HIDE DEF TypeOK, Pedidos, EstadosPedido, Ledgers, Servicios, Operaciones, Corridas, Hilos,
         OPEN, Acciones, Miradas, Cts, Ligaduras, CorridaConOrden, FaseDeVista,
         IdentidadAntesDelEnvio, UnaCreacion, OrdenRespaldada, PorCrear, EnEfecto, PuedeExistir,
         EnVuelo, Abierta, LedgerAbierto, Computos, Enciende, PorEncender
  <1> QED BY Zenon, <1>1, <1>2, <1>3, <1>4, <1>5, <1>6, <1>7, <1>8, <1>9, <1>10, <1>11, <1>12, <1>13,
         <1>14, <1>15, <1>16, <1>17, <1>18, <1>19, <1>20, <1>21, <1>22, <1>23, <1>24, <1>25,
         <1>26, <1>27, <1>28, <1>29 DEF Turno

(* The environment keeps it: only a start in flight makes a container run. *)
LEMMA EntornoComputos ==
  ASSUME TypeOK, Ligaduras, Computos, EXTERNOS = {}, Tarea \/ Externo \/ Reloj
  PROVE  Computos'
  <1> USE DEF TypeOK, Pedidos, EstadosPedido, Ledgers, Servicios, Operaciones, Corridas, Hilos,
         OPEN, Acciones, Miradas, Cts
  <1> USE DEF Ligaduras, CorridaConOrden, FaseDeVista, IdentidadAntesDelEnvio, UnaCreacion,
         OrdenRespaldada, PorCrear, EnEfecto, PuedeExistir, EnVuelo, Abierta, LedgerAbierto
  <1> USE DEF Computos, Enciende, PorEncender
  <1>1. CASE HiloMuere
    BY <1>1 DEF HiloMuere, NadaMas
  <1>2. CASE TareaEmpieza
    BY <1>2 DEF TareaEmpieza, NadaMas
  <1>3. CASE TareaExito
    BY <1>3 DEF TareaExito, Efecto, NadaMas
  <1>4. CASE TareaFalla
    BY <1>4 DEF TareaFalla, NadaMas
  <1>5. CASE ExternoApaga
    BY <1>5 DEF ExternoApaga, NadaMas
  <1>6. CASE ExternoEnciende
    BY <1>6 DEF ExternoEnciende, NadaMas
  <1>7. CASE ExternoBorra
    BY <1>7 DEF ExternoBorra, NadaMas
  <1>8. CASE Comienza
    BY <1>8 DEF Comienza
  <1>9. CASE Vence
    BY <1>9 DEF Vence
  <1>10. CASE CaducaReserva
    BY <1>10 DEF CaducaReserva
  <1>11. CASE VencePlazo
    BY <1>11 DEF VencePlazo
  <1> HIDE DEF TypeOK, Pedidos, EstadosPedido, Ledgers, Servicios, Operaciones, Corridas, Hilos,
         OPEN, Acciones, Miradas, Cts, Ligaduras, CorridaConOrden, FaseDeVista,
         IdentidadAntesDelEnvio, UnaCreacion, OrdenRespaldada, PorCrear, EnEfecto, PuedeExistir,
         EnVuelo, Abierta, LedgerAbierto, Computos, Enciende, PorEncender
  <1> QED BY <1>1, <1>2, <1>3, <1>4, <1>5, <1>6, <1>7, <1>8, <1>9, <1>10, <1>11 DEF Tarea, Externo,
         Reloj

(* Where nobody acts on Proxmox but NAP, compute is retained whenever the  *)
(* container runs or was told to run, also while a start races with a stop *)
(* seen from outside.                                                      *)
THEOREM ComputoSiempre == Spec => []ComputoRetenido
  <1>1. Init => Computos
    BY DEF Init, SinCorrida, Computos, Enciende, PorEncender, EnVuelo, Abierta, LedgerAbierto, OPEN
  <1>2. EXTERNOS = {} /\ TypeOK /\ Ligaduras /\ Ligaduras' /\ Computos /\ [Next]_vars => Computos'
    <2> SUFFICES ASSUME EXTERNOS = {}, TypeOK, Ligaduras, Ligaduras', Computos, [Next]_vars
                 PROVE  Computos'
      OBVIOUS
    <2>1. CASE Next
      BY <2>1, DecisionComputos, TurnoComputos, EntornoComputos DEF Next
    <2>2. CASE UNCHANGED vars
      BY <2>2 DEF vars, Computos, Enciende, PorEncender, EnVuelo, Abierta, LedgerAbierto
    <2> QED BY <2>1, <2>2
  <1>. DEFINE Guardado == EXTERNOS = {} => Computos
  <1>3. Init => Guardado
    BY <1>1
  <1>4. TypeOK /\ Ligaduras /\ Ligaduras' /\ Guardado /\ [Next]_vars => Guardado'
    BY <1>2
  <1>5. Guardado => ComputoRetenido
    BY DEF Computos, Enciende, ComputoRetenido
  <1> HIDE DEF Guardado
  <1> QED BY TiposSiempre, LigadurasSiempre, <1>3, <1>4, <1>5, PTL DEF Spec
=============================================================================
