------------------------ MODULE CicloServicio_proofs ------------------------
(***************************************************************************)
(* Proofs about the life of one order, for every value of the constants:   *)
(* with any orders, approvals, renewals and interference.                  *)
(*                                                                         *)
(* Types first; then Ligaduras, the inductive invariant; then what follows *)
(* from it: capacity is kept until absence, a revoked decision leaves      *)
(* nothing, every step keeps the promise of RecursoReservado, and the      *)
(* order and its dispatches keep to DespachoDeOrden.                       *)
(***************************************************************************)
EXTENDS CicloServicio, TLAPS

TiposOrden == {"ninguna", "desplegar", "iniciar", "detener", "reiniciar", "pausar", "eliminar", "reparar"}
EstadosOrden == OPEN \cup {"confirmada", "fallida", "ninguno"}
FasesOrden == {"preparacion", "lista", "dispatch_started", "tarea", "bootstrap", "detencion_necesaria",
               "eliminacion_necesaria", "verificacion", "cancelada"}

----------------------------------------------------------------------------
(* The rows keep their type under each form of update.                     *)

(* An order moves to another state.                                        *)
LEMMA PedidoEn ==
  ASSUME NEW p \in Pedidos, NEW e \in EstadosPedido
  PROVE  [p EXCEPT !.estado = e] \in Pedidos
  BY DEF Pedidos

(* An approval writes state, revision, schedule and intention.             *)
LEMMA PedidoAprobado ==
  ASSUME NEW p \in Pedidos, NEW e \in EstadosPedido, NEW r \in 0..MaxRev, NEW s \in 0..MaxRev,
         NEW i \in {"manual", "inmediato", "programado"}
  PROVE  [p EXCEPT !.estado = e, !.rev = r, !.programada = s, !.intencion = i] \in Pedidos
  BY DEF Pedidos

(* A deployment that is queued writes state and schedule.                  *)
LEMMA PedidoProgramado ==
  ASSUME NEW p \in Pedidos, NEW e \in EstadosPedido, NEW s \in 0..MaxRev
  PROVE  /\ [p EXCEPT !.estado = e, !.programada = s] \in Pedidos
         /\ [p EXCEPT !.programada = s] \in Pedidos
  BY DEF Pedidos

(* A release or a withdrawal writes state and removal.                     *)
LEMMA PedidoDeBaja ==
  ASSUME NEW p \in Pedidos, NEW e \in EstadosPedido, NEW b \in BOOLEAN
  PROVE  /\ [p EXCEPT !.estado = e, !.baja = b] \in Pedidos
         /\ [p EXCEPT !.baja = b] \in Pedidos
  BY DEF Pedidos

(* The row of a new order.                                                 *)
LEMMA OrdenNueva ==
  ASSUME NEW t \in TiposOrden, NEW b \in BOOLEAN, NuevaOrden(t, b)
  PROVE  op' \in Operaciones
  BY DEF NuevaOrden, Operaciones, TiposOrden, OPEN

(* An operation changes its state.                                         *)
LEMMA OrdenEnEstado ==
  ASSUME NEW o \in Operaciones, NEW e \in EstadosOrden
  PROVE  [o EXCEPT !.estado = e] \in Operaciones
  BY DEF Operaciones, EstadosOrden

(* An operation changes its phase.                                         *)
LEMMA OrdenEnFase ==
  ASSUME NEW o \in Operaciones, NEW f \in FasesOrden
  PROVE  [o EXCEPT !.fase = f] \in Operaciones
  BY DEF Operaciones, FasesOrden

(* An operation is closed with a phase.                                    *)
LEMMA OrdenEnAmbos ==
  ASSUME NEW o \in Operaciones, NEW e \in EstadosOrden, NEW f \in FasesOrden
  PROVE  [o EXCEPT !.estado = e, !.fase = f] \in Operaciones
  BY DEF Operaciones, EstadosOrden, FasesOrden

(* An operation is confirmed with the action it ended with.                *)
LEMMA OrdenCerrada ==
  ASSUME NEW o \in Operaciones, NEW e \in EstadosOrden, NEW f \in FasesOrden,
         NEW a \in Acciones \cup {"bootstrap"}
  PROVE  [o EXCEPT !.estado = e, !.fase = f, !.accion = a] \in Operaciones
  BY DEF Operaciones, EstadosOrden, FasesOrden

(* An operation is marked as sent.                                         *)
LEMMA OrdenEnviada ==
  ASSUME NEW o \in Operaciones, NEW f \in FasesOrden, NEW a \in Acciones
  PROVE  [o EXCEPT !.fase = f, !.accion = a, !.enviada = TRUE, !.plazo = FALSE] \in Operaciones
  BY DEF Operaciones, FasesOrden

(* The deadline of an operation passes.                                    *)
LEMMA OrdenConPlazo ==
  ASSUME NEW o \in Operaciones
  PROVE  [o EXCEPT !.plazo = TRUE] \in Operaciones
  BY DEF Operaciones

----------------------------------------------------------------------------
(* The common parts of several actions keep the types.                     *)

(* _queue_deploy                                                           *)
LEMMA EncolarTipos ==
  ASSUME TypeOK, NEW s \in 0..MaxRev, EncolarDespliegue(s)
  PROVE  TypeOK'
  <1>1. pedido' \in Pedidos
    BY Zenon, PedidoProgramado DEF TypeOK, EncolarDespliegue, EstadosPedido
  <1>2. op' \in Operaciones
    BY OrdenNueva DEF EncolarDespliegue, TiposOrden
  <1> QED BY <1>1, <1>2 DEF TypeOK, EncolarDespliegue

(* _liberar_pedido                                                         *)
LEMMA LiberarTipos ==
  ASSUME TypeOK, NEW e \in EstadosPedido, NEW b \in BOOLEAN, LiberarPedido(e, b)
  PROVE  TypeOK'
  <1>1. pedido' \in Pedidos
    BY Zenon, PedidoDeBaja DEF TypeOK, LiberarPedido
  <1>2. op' \in Operaciones
    <2>1. OrdenCancelada \in Operaciones
      BY Zenon, OrdenEnAmbos DEF TypeOK, OrdenCancelada, EstadosOrden, FasesOrden
    <2> QED BY <2>1 DEF TypeOK, LiberarPedido
  <1>3. ledger' \in Ledgers /\ corrida' \in Corridas
    BY DEF TypeOK, LiberarPedido, LedgerLiberado, SinCorrida, Ledgers, Corridas
  <1> QED BY <1>1, <1>2, <1>3 DEF TypeOK, LiberarPedido

(* The loop goes on from another phase.                                    *)
LEMMA SigueTipos ==
  ASSUME TypeOK, NEW f \in FasesOrden, Sigue(f)
  PROVE  op' \in Operaciones /\ corrida' \in Corridas
  <1>1. op' \in Operaciones
    BY OrdenEnFase DEF TypeOK, Sigue
  <1> QED BY <1>1 DEF Sigue, SinCorrida, Corridas

(* _defer                                                                  *)
LEMMA IncierteTipos ==
  ASSUME TypeOK, Incierta
  PROVE  TypeOK'
  <1>1. op' \in Operaciones
    BY OrdenEnEstado DEF TypeOK, Incierta, OrdenIncierta, EstadosOrden, OPEN
  <1>2. ledger' \in Ledgers
    BY DEF TypeOK, Incierta, LedgerIncierto, Ledgers
  <1> QED BY <1>1, <1>2 DEF TypeOK, Incierta, SinCorrida, Corridas

(* _finish_failure                                                         *)
LEMMA FallarTipos ==
  ASSUME TypeOK, NEW ausente \in BOOLEAN, Fallar(ausente)
  PROVE  TypeOK'
  <1>1. pedido' \in Pedidos
    <2>1. pedido.estado \in EstadosPedido /\ "ERROR" \in EstadosPedido
      BY DEF TypeOK, Pedidos, EstadosPedido
    <2> QED BY <2>1, PedidoEn DEF TypeOK, Fallar
  <1>2. op' \in Operaciones
    BY OrdenEnEstado DEF TypeOK, Fallar, EstadosOrden
  <1>3. ledger' \in Ledgers
    BY DEF TypeOK, Fallar, LedgerIncierto, LedgerLiberado, Ledgers
  <1> QED BY <1>1, <1>2, <1>3 DEF TypeOK, Fallar, SinCorrida, Corridas

(* The mark before the POST.                                               *)
LEMMA EnviarTipos ==
  ASSUME TypeOK, NEW a \in Acciones, Enviar(a)
  PROVE  TypeOK'
  <1>1. op' \in Operaciones
    BY Zenon, OrdenEnviada DEF TypeOK, Enviar, FasesOrden
  <1>2. corrida' \in Corridas /\ hilo' \in Hilos
    BY DEF Enviar, SinCorrida, Corridas, Hilos
  <1> QED BY <1>1, <1>2 DEF TypeOK, Enviar

(* _confirmed                                                              *)
LEMMA ConfirmarTipos ==
  ASSUME TypeOK, NEW a \in Acciones \cup {"bootstrap"}, NEW b \in BOOLEAN, Confirmar(a, b)
  PROVE  TypeOK'
  <1>1. pedido' \in Pedidos
    <2> DEFINE e == PedidoConfirmado(b, EstadoConfirmado(a))
    <2>1. pedido.estado \in EstadosPedido
      BY DEF TypeOK, Pedidos
    <2>2. e \in EstadosPedido
      BY <2>1 DEF PedidoConfirmado, EstadosPedido
    <2>3. pedido' = [pedido EXCEPT !.estado = e]
      BY DEF Confirmar
    <2> QED BY <2>2, <2>3, PedidoEn DEF TypeOK
  <1>2. op' \in Operaciones
    BY Zenon, OrdenCerrada DEF TypeOK, Confirmar, EstadosOrden, FasesOrden
  <1>3. servicio' \in Servicios
    BY DEF TypeOK, Confirmar, EstadoConfirmado, Servicios
  <1>4. ledger' \in Ledgers
    BY DEF Confirmar, LedgerMaterializado, Ledgers
  <1> QED BY <1>1, <1>2, <1>3, <1>4 DEF TypeOK, Confirmar, SinCorrida, Corridas

----------------------------------------------------------------------------
(* The first state has the types.                                          *)
LEMMA InitTipos == Init => TypeOK
  BY ConstantesAssumption DEF Init, TypeOK, SinCorrida, Pedidos, EstadosPedido, Ledgers, Servicios,
     Operaciones, OPEN, Corridas, Hilos, Cts

(* A decision keeps the types.                                             *)
LEMMA DecisionTipos ==
  ASSUME TypeOK, Decision
  PROVE  TypeOK'
  <1>0. /\ pedido \in Pedidos /\ pedido.rev \in 0..MaxRev /\ pedido.programada \in 0..MaxRev
        /\ 0 \in 0..MaxRev
    BY ConstantesAssumption DEF TypeOK, Pedidos
  <1>1. ASSUME NEW i \in {"manual", "inmediato", "programado"}, NEW p \in {"futura", "vigente"},
               Aprobar(i, p)
        PROVE  TypeOK'
    <2>1. pedido.rev + 1 \in 0..MaxRev
      BY <1>0, <1>1, ConstantesAssumption DEF Aprobar
    <2>2. pedido' \in Pedidos
      BY Zenon, <1>0, <1>1, <2>1, PedidoAprobado DEF Aprobar, EstadosPedido
    <2>3. op' \in Operaciones
      BY <1>1, OrdenNueva DEF TypeOK, Aprobar, TiposOrden
    <2>4. ledger' \in Ledgers
      BY <1>1 DEF Aprobar, LedgerReservado, Ledgers
    <2> QED BY <1>1, <2>2, <2>3, <2>4 DEF TypeOK, Aprobar
  <1>2. CASE Desplegar
    BY <1>0, <1>2, EncolarTipos DEF Desplegar
  <1>3. CASE AgendaObsoleta
    BY Zenon, <1>0, <1>3, PedidoProgramado DEF TypeOK, AgendaObsoleta, EstadosPedido
  <1>4. CASE AgendaDespacha
    BY <1>0, <1>4, EncolarTipos DEF AgendaDespacha
  <1>5. CASE Revertir
    BY <1>5, LiberarTipos DEF Revertir, EstadosPedido
  <1>6. CASE ExpirarReserva
    BY <1>6, LiberarTipos DEF ExpirarReserva, EstadosPedido
  <1>7. CASE Ajustar
    <2>1. CASE LiberarPedido("REQUIERE_AJUSTE", FALSE)
      BY <2>1, LiberarTipos DEF EstadosPedido
    <2>2. CASE ~LiberarPedido("REQUIERE_AJUSTE", FALSE)
      BY <1>0, <1>7, <2>2, PedidoEn DEF TypeOK, Ajustar, Transicionar, EstadosPedido
    <2> QED BY Zenon, <2>1, <2>2
  <1>8. CASE DarDeBaja
    <2>1. CASE LiberarPedido("RECHAZADO", TRUE)
      BY <2>1, LiberarTipos DEF EstadosPedido
    <2>2. CASE ~LiberarPedido("RECHAZADO", TRUE)
      <3>1. pedido.estado \in EstadosPedido
        BY DEF TypeOK, Pedidos
      <3>2. pedido' \in Pedidos
        BY Zenon, <1>0, <1>8, <2>2, <3>1, PedidoDeBaja DEF DarDeBaja
      <3> QED BY <1>8, <2>2, <3>2 DEF TypeOK, DarDeBaja
    <2> QED BY Zenon, <2>1, <2>2
  <1>9. CASE Resolver
    BY <1>0, <1>9, PedidoEn DEF TypeOK, Resolver, Transicionar, EstadosPedido
  <1>10. CASE Reintentar
    <2>1. pedido' \in Pedidos
      BY <1>0, <1>10, PedidoEn DEF Reintentar, Transicionar, EstadosPedido
    <2>2. op' \in Operaciones
      BY <1>10, OrdenNueva DEF Reintentar, TiposOrden
    <2> QED BY <1>10, <2>1, <2>2 DEF TypeOK, Reintentar, Servicios
  <1>11. CASE Iniciar
    <2>1. op' \in Operaciones
      BY <1>11, OrdenNueva DEF Iniciar, TiposOrden
    <2> QED BY <1>11, <2>1 DEF TypeOK, Iniciar, Ledgers
  <1>12. CASE RepararAcceso
    <2>1. op' \in Operaciones
      BY <1>12, OrdenNueva DEF RepararAcceso, TiposOrden
    <2> QED BY <1>12, <2>1 DEF TypeOK, RepararAcceso, Servicios
  <1>13. CASE VerificarAcceso
    BY <1>0, <1>13, PedidoEn DEF TypeOK, VerificarAcceso, Transicionar, EstadosPedido
  <1>14. CASE Renovar
    <2>1. vencida.renovaciones \in 0..MaxRenov
      BY DEF TypeOK
    <2>2. vencida.renovaciones + 1 \in 0..MaxRenov
      BY <1>14, <2>1, ConstantesAssumption DEF Renovar
    <2> QED BY <1>14, <2>2 DEF TypeOK, Renovar
  <1>15. ASSUME NEW t \in ORDENES \ {"iniciar", "reparar"}, AdmitirOrden(t)
         PROVE  TypeOK'
    BY <1>15, ConstantesAssumption, OrdenNueva DEF TypeOK, AdmitirOrden, TiposOrden, TodasLasOrdenes
  <1>16. CASE AplicarVencimiento
    <2>1. op' \in Operaciones
      BY <1>16, OrdenNueva DEF AplicarVencimiento, TiposOrden
    <2> QED BY <1>16, <2>1 DEF TypeOK, AplicarVencimiento
  <1>17. ASSUME NEW c \in BOOLEAN, Sincronizar(c)
         PROVE  TypeOK'
    BY <1>17 DEF TypeOK, Sincronizar, LedgerMaterializado, LedgerIncierto, Ledgers, Servicios
  <1> QED
    BY <1>1, <1>2, <1>3, <1>4, <1>5, <1>6, <1>7, <1>8, <1>9, <1>10, <1>11, <1>12, <1>13, <1>14,
       <1>15, <1>16, <1>17 DEF Decision

(* A step of the executor keeps the types.                                 *)
LEMMA TurnoTipos ==
  ASSUME TypeOK, Turno
  PROVE  TypeOK'
  <1>0. op \in Operaciones /\ op.accion \in Acciones \cup {"bootstrap"}
    BY DEF TypeOK, Operaciones
  <1>1. CASE Reclamar
    BY <1>0, <1>1, OrdenEnEstado DEF TypeOK, Reclamar, EstadosOrden, OPEN, SinCorrida, Corridas
  <1>2. CASE Ceder
    BY <1>2 DEF TypeOK, Ceder, SinCorrida, Corridas
  <1>3. CASE PrepararCreacion
    BY <1>3, SigueTipos DEF TypeOK, PrepararCreacion, FasesOrden
  <1>4. CASE RechazarPreparacion
    BY <1>4, FallarTipos DEF RechazarPreparacion
  <1>5. CASE PrepararOrden
    BY <1>5, SigueTipos DEF TypeOK, PrepararOrden, FasesOrden
  <1>6. CASE EmpezarReparacion
    BY <1>6, SigueTipos DEF TypeOK, EmpezarReparacion, FasesOrden
  <1>7. CASE Observar
    BY <1>7 DEF TypeOK, Observar, Corridas, Cts
  <1>8. CASE DespacharCreacion
    BY <1>8, EnviarTipos DEF DespacharCreacion, Acciones
  <1>9. CASE RechazarCreacion
    BY <1>9, FallarTipos DEF RechazarCreacion
  <1>10. CASE DespacharEncendido
    BY <1>10, EnviarTipos DEF DespacharEncendido, Acciones
  <1>11. CASE DespacharDetencion
    BY <1>11, EnviarTipos DEF DespacharDetencion, Acciones
  <1>12. CASE DespacharEliminacion
    BY <1>12, EnviarTipos DEF DespacharEliminacion, Acciones
  <1>13. CASE TomarUpid
    BY <1>13, SigueTipos DEF TypeOK, TomarUpid, FasesOrden
  <1>14. CASE SinTarea \/ TareaVencida \/ NoVerificable
    BY <1>14, IncierteTipos DEF SinTarea, TareaVencida, NoVerificable
  <1>15. CASE Materializar
    <2>1. op' \in Operaciones /\ corrida' \in Corridas
      BY <1>15, SigueTipos DEF Materializar, FasesOrden
    <2>2. servicio' \in Servicios /\ ledger' \in Ledgers
      BY <1>15 DEF TypeOK, Materializar, LedgerMaterializado, Servicios, Ledgers
    <2> QED BY <1>15, <2>1, <2>2 DEF TypeOK, Materializar
  <1>16. CASE RevisarPausa
    <2>1. CASE Cubierto /\ corrida.obs = "corriendo"
      <3>1. /\ op' = [op EXCEPT !.estado = "confirmada", !.fase = "verificacion"]
            /\ ledger' = [ledger EXCEPT !.computo = TRUE] /\ corrida' = SinCorrida
        BY <1>16, <2>1 DEF RevisarPausa
      <3>2. op' \in Operaciones
        BY Zenon, <1>0, <3>1, OrdenEnAmbos DEF EstadosOrden, FasesOrden
      <3> QED BY Zenon, <1>16, <3>1, <3>2 DEF TypeOK, RevisarPausa, Ledgers, SinCorrida, Corridas
    <2>2. CASE ~(Cubierto /\ corrida.obs = "corriendo")
      <3>1. corrida' = [SinCorrida EXCEPT !.pc = "turno", !.para = "detener"] /\ UNCHANGED <<ledger, op>>
        BY <1>16, <2>2 DEF RevisarPausa
      <3>2. corrida' \in Corridas
        BY <3>1 DEF SinCorrida, Corridas, Miradas
      <3> QED BY <1>16, <3>1, <3>2 DEF TypeOK, RevisarPausa
    <2> QED BY <2>1, <2>2
  <1>17. CASE RevisarBaja
    BY <1>17 DEF TypeOK, RevisarBaja, SinCorrida, Corridas, Miradas
  <1>18. CASE YaDetenido
    BY <1>18, SigueTipos DEF TypeOK, YaDetenido, FasesOrden
  <1>19. CASE ConfirmarDetenido
    BY <1>19, ConfirmarTipos DEF ConfirmarDetenido, Acciones
  <1>20. CASE ConfirmarPorPlazo
    BY <1>0, <1>20, ConfirmarTipos DEF ConfirmarPorPlazo
  <1>21. CASE TareaFallida
    BY <1>21, FallarTipos DEF TareaFallida
  <1>22. CASE TareaLograda
    <2>1. UNCHANGED <<pedido, cobertura, ledger, identidad, servicio, hilo, ct, vencida>>
      BY <1>22 DEF TareaLograda
    <2>2. op' \in Operaciones /\ corrida' \in Corridas
      <3>1. CASE Sigue("eliminacion_necesaria")
        BY <3>1, SigueTipos DEF FasesOrden
      <3>2. CASE Sigue("detencion_necesaria")
        BY <3>2, SigueTipos DEF FasesOrden
      <3>3. CASE VistoPara("encendido")
        BY <1>0, <3>3 DEF TypeOK, VistoPara, Corridas, Miradas
      <3> QED BY <1>22, <3>1, <3>2, <3>3 DEF TareaLograda
    <2> QED BY <2>1, <2>2 DEF TypeOK
  <1>23. CASE ConfirmarTarea
    BY Zenon, <1>0, <1>23, ConfirmarTipos DEF ConfirmarTarea
  <1>24. CASE ConfirmarBaja
    <2>1. op' \in Operaciones
      BY Zenon, <1>0, <1>24, OrdenEnAmbos DEF ConfirmarBaja, EstadosOrden, FasesOrden
    <2> QED BY <1>24, <2>1 DEF TypeOK, ConfirmarBaja, LedgerLiberado, SinCorrida, Servicios, Ledgers, Corridas
  <1>25. CASE RevisarCobertura
    <2>1. CASE Sigue("detencion_necesaria")
      BY <1>25, <2>1, SigueTipos DEF TypeOK, RevisarCobertura, FasesOrden
    <2>2. CASE ~Sigue("detencion_necesaria")
      BY <1>25, <2>2 DEF TypeOK, RevisarCobertura, VistoPara, SinCorrida, Corridas, Miradas
    <2> QED BY <2>1, <2>2
  <1>26. CASE PreparacionFallida
    BY <1>26, FallarTipos DEF PreparacionFallida
  <1>27. CASE Entregar
    BY <1>0, <1>27, ConfirmarTipos DEF Entregar
  <1> QED
    BY <1>1, <1>2, <1>3, <1>4, <1>5, <1>6, <1>7, <1>8, <1>9, <1>10, <1>11, <1>12, <1>13, <1>14,
       <1>15, <1>16, <1>17, <1>18, <1>19, <1>20, <1>21, <1>22, <1>23, <1>24, <1>25, <1>26, <1>27
    DEF Turno

(* A step of Proxmox, of a thread, of an operator or of the clock keeps    *)
(* the types.                                                              *)
LEMMA EntornoTipos ==
  ASSUME TypeOK, Tarea \/ Externo \/ Reloj
  PROVE  TypeOK'
  <1>1. CASE Tarea
    BY <1>1 DEF TypeOK, Tarea, HiloMuere, TareaEmpieza, TareaExito, TareaFalla, NadaMas, Hilos, Cts
  <1>2. CASE Externo
    BY <1>2 DEF TypeOK, Externo, ExternoApaga, ExternoEnciende, ExternoBorra, NadaMas, Cts
  <1>3. CASE Comienza \/ Vence \/ CaducaReserva
    BY <1>3 DEF TypeOK, Comienza, Vence, CaducaReserva, Ledgers
  <1>4. CASE VencePlazo
    BY <1>4, OrdenConPlazo DEF TypeOK, VencePlazo
  <1> QED BY <1>1, <1>2, <1>3, <1>4 DEF Reloj

(* Type correctness: rows, run, thread and container have the states the   *)
(* models of the code allow, in every reachable state.                     *)
THEOREM TiposSiempre == Spec => []TypeOK
  <1>1. TypeOK /\ [Next]_vars => TypeOK'
    <2> SUFFICES ASSUME TypeOK, [Next]_vars PROVE TypeOK'
      OBVIOUS
    <2>1. CASE Next
      BY <2>1, DecisionTipos, TurnoTipos, EntornoTipos DEF Next
    <2>2. CASE UNCHANGED vars
      BY <2>2 DEF TypeOK, vars
    <2> QED BY <2>1, <2>2
  <1> QED BY InitTipos, <1>1, PTL DEF Spec


----------------------------------------------------------------------------
(* The links between operation, run, request and ledger: what each of the  *)
(* common parts does to them.                                              *)

(* A release: nothing was sent, and nothing is open or retained after it.  *)
LEMMA LiberarLigaduras ==
  ASSUME TypeOK, Ligaduras, NEW e \in {"RECHAZADO", "REQUIERE_AJUSTE"}, NEW b \in BOOLEAN,
         LiberarPedido(e, b)
  PROVE  Ligaduras'
  <1> USE DEF TypeOK, Pedidos, EstadosPedido, Ledgers, Servicios, Operaciones, Corridas, Hilos,
         OPEN, Acciones, Miradas, Cts
  <1> USE DEF Ligaduras, CorridaConOrden, FaseDeVista, IdentidadAntesDelEnvio, UnaCreacion,
         OrdenRespaldada, PorCrear, EnEfecto, PuedeExistir, EnVuelo, Abierta, LedgerAbierto
  <1>1. hilo.etapa = "no" /\ ct = "ausente" /\ servicio.estado = "no"
    BY DEF LiberarPedido, Liberable
  <1>2. ~Abierta' /\ ~LedgerAbierto'
    <2>1. ~LedgerAbierto'
      BY DEF LiberarPedido, LedgerLiberado
    <2>2. CASE Abierta
      <3>1. op' = OrdenCancelada
        BY <2>2 DEF LiberarPedido
      <3> QED BY <2>1, <3>1 DEF OrdenCancelada
    <2>3. CASE ~Abierta
      <3>1. op' = op
        BY <2>3 DEF LiberarPedido
      <3> QED BY <2>1, <2>3, <3>1
    <2> QED BY <2>2, <2>3
  <1>3. corrida'.pc = "libre"
    BY DEF LiberarPedido, SinCorrida
  <1>4. UNCHANGED <<identidad, servicio, hilo, ct>> /\ pedido'.estado = e
    BY DEF LiberarPedido
  <1> QED BY <1>1, <1>2, <1>3, <1>4

(* A deferral: an uncertain operation stays open and backed.               *)
LEMMA IncierteLigaduras ==
  ASSUME TypeOK, Ligaduras, corrida.pc # "libre", Incierta
  PROVE  Ligaduras'
  <1> USE DEF TypeOK, Pedidos, EstadosPedido, Ledgers, Servicios, Operaciones, Corridas, Hilos,
         OPEN, Acciones, Miradas, Cts
  <1> USE DEF Ligaduras, CorridaConOrden, FaseDeVista, IdentidadAntesDelEnvio, UnaCreacion,
         OrdenRespaldada, PorCrear, EnEfecto, PuedeExistir, EnVuelo, Abierta, LedgerAbierto
  <1> QED BY DEF Incierta, OrdenIncierta, LedgerIncierto, SinCorrida

(* A failure, with no request in flight: what it frees is not there.       *)
LEMMA FallarLigaduras ==
  ASSUME TypeOK, Ligaduras, NEW ausente \in BOOLEAN, corrida.pc # "libre", ~EnVuelo,
         ausente => ~PuedeExistir, Fallar(ausente)
  PROVE  Ligaduras'
  <1> USE DEF TypeOK, Pedidos, EstadosPedido, Ledgers, Servicios, Operaciones, Corridas, Hilos,
         OPEN, Acciones, Miradas, Cts
  <1> USE DEF Ligaduras, CorridaConOrden, FaseDeVista, IdentidadAntesDelEnvio, UnaCreacion,
         OrdenRespaldada, PorCrear, EnEfecto, PuedeExistir, EnVuelo, Abierta, LedgerAbierto
  <1>1. ~Abierta' /\ corrida'.pc = "libre" /\ UNCHANGED <<servicio, hilo, ct>>
    BY DEF Fallar, SinCorrida
  <1>2. ct # "ausente" => LedgerAbierto' /\ identidad' # "no"
    BY DEF Fallar, LiberaAlFallar, LedgerIncierto
  <1>3. ledger'.estado # "reservado"
    BY DEF Fallar, LedgerIncierto, LedgerLiberado
  <1>4. pedido'.estado \notin {"SOLICITADO", "REQUIERE_AJUSTE", "APROBADO", "CANCELADO", "RECHAZADO"}
        /\ ~pedido'.baja
    BY DEF Fallar
  <1> QED BY <1>1, <1>2, <1>3, <1>4

(* The mark before a POST: the first one is the creation, and none is sent *)
(* while another is in flight.                                             *)
LEMMA EnviarLigaduras ==
  ASSUME TypeOK, Ligaduras, NEW a \in Acciones, corrida.pc # "libre", op.fase # "preparacion",
         ~EnEfecto, PorCrear <=> a = "crear", Enviar(a)
  PROVE  Ligaduras'
  <1> USE DEF TypeOK, Pedidos, EstadosPedido, Ledgers, Servicios, Operaciones, Corridas, Hilos,
         OPEN, Acciones, Miradas, Cts
  <1> USE DEF Ligaduras, CorridaConOrden, FaseDeVista, IdentidadAntesDelEnvio, UnaCreacion,
         OrdenRespaldada, PorCrear, EnEfecto, PuedeExistir, EnVuelo, Abierta, LedgerAbierto
  <1>1. ~EnVuelo /\ LedgerAbierto /\ identidad # "no"
    OBVIOUS
  <1>2. op'.estado = op.estado /\ op'.fase = "dispatch_started" /\ op'.accion = a /\ ~op'.plazo
    BY DEF Enviar
  <1>3. hilo'.accion = a /\ hilo'.etapa = "vuelo" /\ corrida'.pc = "espera" /\ corrida'.para = "nada"
    BY DEF Enviar, SinCorrida
  <1>4. UNCHANGED <<pedido, ledger, identidad, servicio, ct>>
    BY DEF Enviar
  <1>5. ledger.estado = "reservado" => a = "crear"
    OBVIOUS
  <1> QED BY <1>1, <1>2, <1>3, <1>4, <1>5

(* A confirmation, with no request in flight: the ledger is open.          *)
LEMMA ConfirmarLigaduras ==
  ASSUME TypeOK, Ligaduras, NEW a \in Acciones \cup {"bootstrap"}, NEW b \in BOOLEAN,
         corrida.pc # "libre", ~EnVuelo, Confirmar(a, b)
  PROVE  Ligaduras'
  <1> USE DEF TypeOK, Pedidos, EstadosPedido, Ledgers, Servicios, Operaciones, Corridas, Hilos,
         OPEN, Acciones, Miradas, Cts
  <1> USE DEF Ligaduras, CorridaConOrden, FaseDeVista, IdentidadAntesDelEnvio, UnaCreacion,
         OrdenRespaldada, PorCrear, EnEfecto, PuedeExistir, EnVuelo, Abierta, LedgerAbierto
  <1>1. ~Abierta' /\ corrida'.pc = "libre" /\ UNCHANGED <<hilo, ct>> /\ identidad' = "materializada"
    BY DEF Confirmar, SinCorrida
  <1>2. ledger'.estado = "materializado" /\ hilo.etapa # "no"
    BY DEF Confirmar, LedgerMaterializado, ServicioVivo
  <1>3. /\ ~pedido'.baja
        /\ pedido'.estado \notin {"SOLICITADO", "REQUIERE_AJUSTE", "APROBADO", "CANCELADO", "RECHAZADO"}
    BY DEF Confirmar, PedidoConfirmado
  <1> QED BY <1>1, <1>2, <1>3

----------------------------------------------------------------------------
(* The first state has the links.                                          *)
LEMMA InitLigaduras == Init => Ligaduras
  BY DEF Init, SinCorrida, Ligaduras, CorridaConOrden, FaseDeVista, IdentidadAntesDelEnvio, UnaCreacion,
     OrdenRespaldada, PorCrear, EnEfecto, PuedeExistir, EnVuelo, Abierta, LedgerAbierto, OPEN

(* A decision keeps the links.                                             *)
LEMMA DecisionLigaduras ==
  ASSUME TypeOK, Ligaduras, Decision
  PROVE  Ligaduras'
  <1> USE DEF TypeOK, Pedidos, EstadosPedido, Ledgers, Servicios, Operaciones, Corridas, Hilos,
         OPEN, Acciones, Miradas, Cts
  <1> USE DEF Ligaduras, CorridaConOrden, FaseDeVista, IdentidadAntesDelEnvio, UnaCreacion,
         OrdenRespaldada, PorCrear, EnEfecto, PuedeExistir, EnVuelo, Abierta, LedgerAbierto
  <1>1. ASSUME NEW i \in {"manual", "inmediato", "programado"}, NEW p \in {"futura", "vigente"}, Aprobar(i, p)
        PROVE  Ligaduras'
    BY <1>1 DEF Aprobar, NuevaOrden, LedgerReservado
  <1>2. CASE Desplegar
    BY <1>2 DEF Desplegar, EncolarDespliegue, NuevaOrden
  <1>3. CASE AgendaObsoleta
    BY <1>3 DEF AgendaObsoleta
  <1>4. CASE AgendaDespacha
    BY <1>4 DEF AgendaDespacha, EncolarDespliegue, NuevaOrden
  <1>5. CASE Revertir
    BY <1>5, LiberarLigaduras DEF Revertir
  <1>6. CASE ExpirarReserva
    BY <1>6, LiberarLigaduras DEF ExpirarReserva
  <1>7. CASE Ajustar
    <2>1. CASE LiberarPedido("REQUIERE_AJUSTE", FALSE)
      BY <2>1, LiberarLigaduras
    <2>2. CASE ~LiberarPedido("REQUIERE_AJUSTE", FALSE)
      <3>1. /\ pedido.estado = "SOLICITADO" /\ pedido' = [pedido EXCEPT !.estado = "REQUIERE_AJUSTE"]
            /\ UNCHANGED <<ledger, identidad, servicio, op, corrida, hilo, ct>>
        BY <1>7, <2>2 DEF Ajustar, Transicionar
      <3> QED BY <3>1
    <2> QED BY <2>1, <2>2
  <1>8. CASE DarDeBaja
    <2>1. CASE LiberarPedido("RECHAZADO", TRUE)
      BY <2>1, LiberarLigaduras
    <2>2. CASE ~LiberarPedido("RECHAZADO", TRUE)
      <3>1. /\ ~LedgerAbierto /\ ~Abierta /\ pedido' = [pedido EXCEPT !.baja = TRUE]
            /\ UNCHANGED <<ledger, identidad, servicio, op, corrida, hilo, ct>>
        BY <1>8, <2>2 DEF DarDeBaja
      <3> QED BY <3>1
    <2> QED BY <2>1, <2>2
  <1>9. CASE Resolver
    BY <1>9 DEF Resolver, Transicionar, FalloSeguro
  <1>10. CASE Reintentar
    BY <1>10 DEF Reintentar, Reintentable, Transicionar, NuevaOrden
  <1>11. CASE Iniciar
    BY <1>11 DEF Iniciar, Operable, ServicioVivo, NuevaOrden
  <1>12. CASE RepararAcceso
    BY <1>12 DEF RepararAcceso, Operable, ServicioVivo, NuevaOrden
  <1>13. CASE VerificarAcceso
    BY <1>13 DEF VerificarAcceso, Transicionar
  <1>14. CASE Renovar
    BY <1>14 DEF Renovar
  <1>15. ASSUME NEW t \in ORDENES \ {"iniciar", "reparar"}, AdmitirOrden(t)
         PROVE  Ligaduras'
    BY <1>15, ConstantesAssumption DEF AdmitirOrden, Operable, ServicioVivo, NuevaOrden,
       TodasLasOrdenes
  <1>16. CASE AplicarVencimiento
    BY <1>16 DEF AplicarVencimiento, Operable, ServicioVivo, NuevaOrden
  <1>17. ASSUME NEW c \in BOOLEAN, Sincronizar(c)
         PROVE  Ligaduras'
    BY <1>17 DEF Sincronizar, Operable, ServicioVivo, LedgerMaterializado, LedgerIncierto
  <1> HIDE DEF TypeOK, Pedidos, EstadosPedido, Ledgers, Servicios, Operaciones, Corridas, Hilos,
         OPEN, Acciones, Miradas, Cts, Ligaduras, CorridaConOrden, FaseDeVista,
         IdentidadAntesDelEnvio, UnaCreacion, OrdenRespaldada, PorCrear, EnEfecto, PuedeExistir,
         EnVuelo, Abierta, LedgerAbierto
  <1> QED BY <1>1, <1>2, <1>3, <1>4, <1>5, <1>6, <1>7, <1>8, <1>9, <1>10, <1>11, <1>12, <1>13,
         <1>14, <1>15, <1>16, <1>17 DEF Decision

(* A step of the executor keeps the links.                                 *)
LEMMA TurnoLigaduras ==
  ASSUME TypeOK, Ligaduras, Turno
  PROVE  Ligaduras'
  <1> USE DEF TypeOK, Pedidos, EstadosPedido, Ledgers, Servicios, Operaciones, Corridas, Hilos,
         OPEN, Acciones, Miradas, Cts
  <1> USE DEF Ligaduras, CorridaConOrden, FaseDeVista, IdentidadAntesDelEnvio, UnaCreacion,
         OrdenRespaldada, PorCrear, EnEfecto, PuedeExistir, EnVuelo, Abierta, LedgerAbierto
  <1>1. CASE Reclamar
    BY <1>1 DEF Reclamar, SinCorrida
  <1>2. CASE Ceder
    BY <1>2 DEF Ceder, SinCorrida
  <1>3. CASE PrepararCreacion
    BY <1>3 DEF PrepararCreacion, EnTurno, Sigue, SinCorrida
  <1>4. CASE RechazarPreparacion
    BY <1>4, FallarLigaduras DEF RechazarPreparacion, EnTurno
  <1>5. CASE PrepararOrden
    BY <1>5 DEF PrepararOrden, EnTurno, Sigue, SinCorrida
  <1>6. CASE EmpezarReparacion
    BY <1>6 DEF EmpezarReparacion, EnTurno, Sigue, SinCorrida
  <1>7. CASE Observar
    <2>1. PICK para \in Miradas, obs \in {ct, "ajena"} :
            Mira(para) /\ corrida' = [pc |-> "visto", para |-> para, obs |-> obs]
      BY <1>7 DEF Observar
    <2>2. UNCHANGED <<pedido, ledger, identidad, servicio, op, hilo, ct>>
      BY <1>7 DEF Observar
    <2>3. Abierta /\ (para \in {"obsoleta", "baja", "detener", "materializar"} => ~PorCrear)
      BY <2>1 DEF Mira, EnTurno, MiraEnLista, PorMaterializar
    <2>4. FaseDeVista'
      BY <2>1, <2>2 DEF Mira, EnTurno, MiraEnLista, PorPlazo, TareaHallable, HayTarea
    <2> QED BY <2>1, <2>2, <2>3, <2>4
  <1>8. CASE DespacharCreacion
    BY <1>8, EnviarLigaduras DEF DespacharCreacion, EnTurno
  <1>9. CASE RechazarCreacion
    BY <1>9, FallarLigaduras DEF RechazarCreacion, EnTurno
  <1>10. CASE DespacharEncendido
    BY <1>10, EnviarLigaduras DEF DespacharEncendido, EnTurno
  <1>11. CASE DespacharDetencion
    BY <1>11, EnviarLigaduras DEF DespacharDetencion, Visto
  <1>12. CASE DespacharEliminacion
    BY <1>12, EnviarLigaduras DEF DespacharEliminacion, EnTurno, Visto
  <1>13. CASE TomarUpid
    BY <1>13 DEF TomarUpid, EnTurno, Sigue, SinCorrida
  <1>14. CASE SinTarea
    BY <1>14, IncierteLigaduras DEF SinTarea, EnTurno
  <1>15. CASE TareaVencida
    BY <1>15, IncierteLigaduras DEF TareaVencida, EnTurno
  <1>16. CASE Materializar
    <2>1. ~PorCrear /\ ~EnVuelo /\ hilo.etapa # "no" /\ corrida.pc # "libre"
      BY <1>16 DEF Materializar, Visto
    <2>2. /\ op' = [op EXCEPT !.fase = "bootstrap"] /\ corrida'.pc = "turno" /\ corrida'.para = "nada"
          /\ ledger'.estado = "materializado" /\ identidad' = "materializada"
          /\ UNCHANGED <<pedido, hilo, ct>>
      BY <1>16 DEF Materializar, Sigue, SinCorrida, LedgerMaterializado
    <2> QED BY <2>1, <2>2
  <1>17. CASE RevisarPausa
    <2>1. ~PorCrear /\ ~EnVuelo /\ hilo.etapa # "no" /\ ledger.estado # "reservado" /\ corrida.pc # "libre"
      BY <1>17 DEF RevisarPausa, Visto
    <2>2. CASE Cubierto /\ corrida.obs = "corriendo"
      <3>1. /\ op' = [op EXCEPT !.estado = "confirmada", !.fase = "verificacion"]
            /\ ledger' = [ledger EXCEPT !.computo = TRUE] /\ corrida' = SinCorrida
            /\ UNCHANGED <<pedido, identidad, servicio, hilo, ct>>
        BY <1>17, <2>2 DEF RevisarPausa
      <3> QED BY <2>1, <3>1 DEF SinCorrida
    <2>3. CASE ~(Cubierto /\ corrida.obs = "corriendo")
      <3>1. /\ corrida' = [SinCorrida EXCEPT !.pc = "turno", !.para = "detener"]
            /\ UNCHANGED <<pedido, ledger, identidad, servicio, op, hilo, ct>>
        BY <1>17, <2>3 DEF RevisarPausa
      <3>2. corrida'.pc = "turno" /\ corrida'.para = "detener"
        BY <3>1 DEF SinCorrida
      <3> QED BY <2>1, <3>1, <3>2
    <2> QED BY <2>2, <2>3
  <1>18. CASE RevisarBaja
    BY <1>18 DEF RevisarBaja, Visto, SinCorrida
  <1>19. CASE YaDetenido
    BY <1>19 DEF YaDetenido, Visto, Sigue, SinCorrida
  <1>20. CASE ConfirmarDetenido
    BY <1>20, ConfirmarLigaduras DEF ConfirmarDetenido, Visto
  <1>21. CASE ConfirmarPorPlazo
    BY Zenon, <1>21, ConfirmarLigaduras DEF ConfirmarPorPlazo, Visto, Confirmar, ObsConfirma
  <1>22. CASE TareaFallida
    BY <1>22, FallarLigaduras DEF TareaFallida, Visto
  <1>23. CASE TareaLograda
    BY <1>23 DEF TareaLograda, Visto, VistoPara, Sigue, SinCorrida
  <1>24. CASE ConfirmarTarea
    BY <1>24, ConfirmarLigaduras DEF ConfirmarTarea, Visto
  <1>25. CASE ConfirmarBaja
    BY <1>25 DEF ConfirmarBaja, Visto, LedgerLiberado, SinCorrida
  <1>26. CASE RevisarCobertura
    BY <1>26 DEF RevisarCobertura, Visto, Presente, VistoPara, Sigue, SinCorrida
  <1>27. CASE PreparacionFallida
    BY <1>27, FallarLigaduras DEF PreparacionFallida
  <1>28. CASE Entregar
    BY <1>28, ConfirmarLigaduras DEF Entregar, Visto
  <1>29. CASE NoVerificable
    BY <1>29, IncierteLigaduras DEF NoVerificable, Lee, Mira, EnTurno
  <1> HIDE DEF TypeOK, Pedidos, EstadosPedido, Ledgers, Servicios, Operaciones, Corridas, Hilos,
         OPEN, Acciones, Miradas, Cts, Ligaduras, CorridaConOrden, FaseDeVista,
         IdentidadAntesDelEnvio, UnaCreacion, OrdenRespaldada, PorCrear, EnEfecto, PuedeExistir,
         EnVuelo, Abierta, LedgerAbierto
  <1> QED BY Zenon, <1>1, <1>2, <1>3, <1>4, <1>5, <1>6, <1>7, <1>8, <1>9, <1>10, <1>11, <1>12, <1>13,
         <1>14, <1>15, <1>16, <1>17, <1>18, <1>19, <1>20, <1>21, <1>22, <1>23, <1>24, <1>25,
         <1>26, <1>27, <1>28, <1>29 DEF Turno

(* The environment keeps the links.                                        *)
LEMMA EntornoLigaduras ==
  ASSUME TypeOK, Ligaduras, Tarea \/ Externo \/ Reloj
  PROVE  Ligaduras'
  <1> USE DEF TypeOK, Pedidos, EstadosPedido, Ledgers, Servicios, Operaciones, Corridas, Hilos,
         OPEN, Acciones, Miradas, Cts
  <1> USE DEF Ligaduras, CorridaConOrden, FaseDeVista, IdentidadAntesDelEnvio, UnaCreacion,
         OrdenRespaldada, PorCrear, EnEfecto, PuedeExistir, EnVuelo, Abierta, LedgerAbierto
  <1>1. CASE HiloMuere
    BY <1>1 DEF HiloMuere, NadaMas
  <1>2. CASE TareaEmpieza
    BY <1>2 DEF TareaEmpieza, NadaMas
  <1>3. CASE TareaExito
    BY <1>3 DEF TareaExito, Efecto, NadaMas, Acciones
  <1>4. CASE TareaFalla
    BY <1>4 DEF TareaFalla, NadaMas
  <1>5. CASE ExternoApaga
    BY <1>5 DEF ExternoApaga, NadaMas
  <1>6. CASE ExternoEnciende
    BY <1>6 DEF ExternoEnciende, NadaMas
  <1>7. CASE ExternoBorra
    BY <1>7 DEF ExternoBorra, NadaMas
  <1>8. CASE Comienza
    BY <1>8 DEF Comienza
  <1>9. CASE Vence
    BY <1>9 DEF Vence
  <1>10. CASE CaducaReserva
    BY <1>10 DEF CaducaReserva
  <1>11. CASE VencePlazo
    BY <1>11 DEF VencePlazo
  <1> HIDE DEF TypeOK, Pedidos, EstadosPedido, Ledgers, Servicios, Operaciones, Corridas, Hilos,
         OPEN, Acciones, Miradas, Cts, Ligaduras, CorridaConOrden, FaseDeVista,
         IdentidadAntesDelEnvio, UnaCreacion, OrdenRespaldada, PorCrear, EnEfecto, PuedeExistir,
         EnVuelo, Abierta, LedgerAbierto
  <1> QED BY <1>1, <1>2, <1>3, <1>4, <1>5, <1>6, <1>7, <1>8, <1>9, <1>10, <1>11 DEF Tarea, Externo, Reloj

----------------------------------------------------------------------------
(* The links between operation, run, request in flight and ledger hold in  *)
(* every reachable state.                                                  *)
THEOREM LigadurasSiempre == Spec => []Ligaduras
  <1>1. TypeOK /\ Ligaduras /\ [Next]_vars => Ligaduras'
    <2> SUFFICES ASSUME TypeOK, Ligaduras, [Next]_vars PROVE Ligaduras'
      OBVIOUS
    <2>1. CASE Next
      BY <2>1, DecisionLigaduras, TurnoLigaduras, EntornoLigaduras DEF Next
    <2>2. CASE UNCHANGED vars
      BY <2>2 DEF vars, Ligaduras, CorridaConOrden, FaseDeVista, IdentidadAntesDelEnvio, UnaCreacion,
         OrdenRespaldada, PorCrear, EnEfecto, PuedeExistir, EnVuelo, Abierta, LedgerAbierto
    <2> QED BY <2>1, <2>2
  <1> QED BY InitLigaduras, TiposSiempre, <1>1, PTL DEF Spec

(* Whatever releases the capacity of an order (expiry, rejection,          *)
(* adjustment, a failure, a removal), its container is gone and no         *)
(* creation of it is in flight.                                            *)
THEOREM CapacidadSiempre == Spec => []CapacidadHastaAusencia
  <1>1. Ligaduras => CapacidadHastaAusencia
    BY DEF Ligaduras, OrdenRespaldada, PuedeExistir, CapacidadHastaAusencia
  <1> QED BY LigadurasSiempre, <1>1, PTL

(* An order that was sent back, cancelled, rejected or withdrawn has no    *)
(* open operation, no reservation, no request in flight and no container.  *)
THEOREM DecisionRevocadaSiempre == Spec => []DecisionRevocada
  <1>1. Ligaduras => DecisionRevocada
    BY DEF Ligaduras, OrdenRespaldada, PuedeExistir, EnEfecto, DecisionRevocada
  <1> QED BY LigadurasSiempre, <1>1, PTL

----------------------------------------------------------------------------
(* Every step of the system is a step of the promise, or none.             *)

(* A release frees a reservation for which nothing was asked.              *)
LEMMA LiberarPromesa ==
  ASSUME TypeOK, Ligaduras, NEW e \in {"RECHAZADO", "REQUIERE_AJUSTE"}, NEW b \in BOOLEAN,
         LiberarPedido(e, b)
  PROVE  [Promesa!Next]_(Promesa!vars)
  <1> USE DEF TypeOK, Pedidos, EstadosPedido, Ledgers, Servicios, Operaciones, Corridas, Hilos,
         OPEN, Acciones, Miradas, Cts
  <1> USE DEF Ligaduras, CorridaConOrden, FaseDeVista, IdentidadAntesDelEnvio, UnaCreacion,
         OrdenRespaldada, PorCrear, EnEfecto, PuedeExistir, EnVuelo, Abierta, LedgerAbierto
  <1> USE DEF Recurso, Promesa!Next, Promesa!vars, Promesa!Retener, Promesa!Enviar, Promesa!Nacer,
         Promesa!Fracasar, Promesa!Desaparecer, Promesa!Liberar
  <1>1. hilo.etapa = "no" /\ ct = "ausente" /\ LedgerAbierto
    BY DEF LiberarPedido, Liberable
  <1>2. ~LedgerAbierto' /\ UNCHANGED <<hilo, ct>>
    BY DEF LiberarPedido, LedgerLiberado
  <1> QED BY <1>1, <1>2

(* A decision keeps the promise.                                           *)
LEMMA DecisionPromesa ==
  ASSUME TypeOK, Ligaduras, Decision
  PROVE  [Promesa!Next]_(Promesa!vars)
  <1> USE DEF TypeOK, Pedidos, EstadosPedido, Ledgers, Servicios, Operaciones, Corridas, Hilos,
         OPEN, Acciones, Miradas, Cts
  <1> USE DEF Ligaduras, CorridaConOrden, FaseDeVista, IdentidadAntesDelEnvio, UnaCreacion,
         OrdenRespaldada, PorCrear, EnEfecto, PuedeExistir, EnVuelo, Abierta, LedgerAbierto
  <1> USE DEF Recurso, Promesa!Next, Promesa!vars, Promesa!Retener, Promesa!Enviar, Promesa!Nacer,
         Promesa!Fracasar, Promesa!Desaparecer, Promesa!Liberar
  <1>1. ASSUME NEW i \in {"manual", "inmediato", "programado"}, NEW p \in {"futura", "vigente"}, Aprobar(i, p)
        PROVE  [Promesa!Next]_(Promesa!vars)
    BY <1>1 DEF Aprobar, NuevaOrden, LedgerReservado
  <1>2. CASE Desplegar
    BY <1>2 DEF Desplegar, EncolarDespliegue, NuevaOrden
  <1>3. CASE AgendaObsoleta
    BY <1>3 DEF AgendaObsoleta
  <1>4. CASE AgendaDespacha
    BY <1>4 DEF AgendaDespacha, EncolarDespliegue, NuevaOrden
  <1>5. CASE Revertir
    BY <1>5, LiberarPromesa DEF Revertir
  <1>6. CASE ExpirarReserva
    BY <1>6, LiberarPromesa DEF ExpirarReserva
  <1>7. CASE Ajustar
    <2>1. CASE LiberarPedido("REQUIERE_AJUSTE", FALSE)
      BY <2>1, LiberarPromesa
    <2>2. CASE ~LiberarPedido("REQUIERE_AJUSTE", FALSE)
      <3>1. UNCHANGED <<ledger, hilo, ct>>
        BY <1>7, <2>2 DEF Ajustar
      <3> QED BY <3>1
    <2> QED BY <2>1, <2>2
  <1>8. CASE DarDeBaja
    <2>1. CASE LiberarPedido("RECHAZADO", TRUE)
      BY <2>1, LiberarPromesa
    <2>2. CASE ~LiberarPedido("RECHAZADO", TRUE)
      <3>1. UNCHANGED <<ledger, hilo, ct>>
        BY <1>8, <2>2 DEF DarDeBaja
      <3> QED BY <3>1
    <2> QED BY <2>1, <2>2
  <1>9. CASE Resolver
    BY <1>9 DEF Resolver, Transicionar, FalloSeguro
  <1>10. CASE Reintentar
    BY <1>10 DEF Reintentar, Reintentable, Transicionar, NuevaOrden
  <1>11. CASE Iniciar
    BY <1>11 DEF Iniciar, Operable, ServicioVivo, NuevaOrden
  <1>12. CASE RepararAcceso
    BY <1>12 DEF RepararAcceso, Operable, ServicioVivo, NuevaOrden
  <1>13. CASE VerificarAcceso
    BY <1>13 DEF VerificarAcceso, Transicionar
  <1>14. CASE Renovar
    BY <1>14 DEF Renovar
  <1>15. ASSUME NEW t \in ORDENES \ {"iniciar", "reparar"}, AdmitirOrden(t)
         PROVE  [Promesa!Next]_(Promesa!vars)
    BY <1>15, ConstantesAssumption DEF AdmitirOrden, Operable, ServicioVivo, NuevaOrden,
       TodasLasOrdenes
  <1>16. CASE AplicarVencimiento
    BY <1>16 DEF AplicarVencimiento, Operable, ServicioVivo, NuevaOrden
  <1>17. ASSUME NEW c \in BOOLEAN, Sincronizar(c)
         PROVE  [Promesa!Next]_(Promesa!vars)
    BY <1>17 DEF Sincronizar, Operable, ServicioVivo, LedgerMaterializado, LedgerIncierto
  <1> HIDE DEF Promesa!Next, Promesa!vars
  <1> HIDE DEF TypeOK, Pedidos, EstadosPedido, Ledgers, Servicios, Operaciones, Corridas, Hilos,
         OPEN, Acciones, Miradas, Cts, Ligaduras, CorridaConOrden, FaseDeVista,
         IdentidadAntesDelEnvio, UnaCreacion, OrdenRespaldada, PorCrear, EnEfecto, PuedeExistir,
         EnVuelo, Abierta, LedgerAbierto
  <1> HIDE DEF Recurso, Promesa!Next, Promesa!vars, Promesa!Retener, Promesa!Enviar, Promesa!Nacer,
         Promesa!Fracasar, Promesa!Desaparecer, Promesa!Liberar
  <1> QED BY <1>1, <1>2, <1>3, <1>4, <1>5, <1>6, <1>7, <1>8, <1>9, <1>10, <1>11, <1>12, <1>13,
         <1>14, <1>15, <1>16, <1>17 DEF Decision

(* A step of the executor keeps the promise.                               *)
LEMMA TurnoPromesa ==
  ASSUME TypeOK, Ligaduras, Turno
  PROVE  [Promesa!Next]_(Promesa!vars)
  <1> USE DEF TypeOK, Pedidos, EstadosPedido, Ledgers, Servicios, Operaciones, Corridas, Hilos,
         OPEN, Acciones, Miradas, Cts
  <1> USE DEF Ligaduras, CorridaConOrden, FaseDeVista, IdentidadAntesDelEnvio, UnaCreacion,
         OrdenRespaldada, PorCrear, EnEfecto, PuedeExistir, EnVuelo, Abierta, LedgerAbierto
  <1> USE DEF Recurso, Promesa!Next, Promesa!vars, Promesa!Retener, Promesa!Enviar, Promesa!Nacer,
         Promesa!Fracasar, Promesa!Desaparecer, Promesa!Liberar
  <1>1. CASE Reclamar
    BY <1>1 DEF Reclamar, SinCorrida
  <1>2. CASE Ceder
    BY <1>2 DEF Ceder, SinCorrida
  <1>3. CASE PrepararCreacion
    BY <1>3 DEF PrepararCreacion, EnTurno, Sigue, SinCorrida
  <1>4. CASE RechazarPreparacion
    BY <1>4 DEF RechazarPreparacion, EnTurno, Fallar, LiberaAlFallar, LedgerLiberado,
       LedgerIncierto, SinCorrida
  <1>5. CASE PrepararOrden
    BY <1>5 DEF PrepararOrden, EnTurno, Sigue, SinCorrida
  <1>6. CASE EmpezarReparacion
    BY <1>6 DEF EmpezarReparacion, EnTurno, Sigue, SinCorrida
  <1>7. CASE Observar
    BY <1>7 DEF Observar, Mira, EnTurno, MiraEnLista, PorMaterializar, PorPlazo, TareaHallable,
       HayTarea, Miradas
  <1>8. CASE DespacharCreacion
    BY <1>8 DEF DespacharCreacion, CreacionHabilitada, EnTurno, Enviar, SinCorrida
  <1>9. CASE RechazarCreacion
    BY <1>9 DEF RechazarCreacion, EnTurno, Fallar, LiberaAlFallar, LedgerLiberado, LedgerIncierto,
       SinCorrida
  <1>10. CASE DespacharEncendido
    BY <1>10 DEF DespacharEncendido, EnTurno, Enviar, SinCorrida
  <1>11. CASE DespacharDetencion
    <2>1. ~EnVuelo /\ hilo.etapa # "no"
      BY <1>11 DEF DespacharDetencion, Visto
    <2>2. UNCHANGED <<ledger, ct>> /\ hilo' = [accion |-> "detener", etapa |-> "vuelo"]
      BY <1>11 DEF DespacharDetencion, Enviar
    <2> QED BY <2>1, <2>2
  <1>12. CASE DespacharEliminacion
    <2>1. ~EnVuelo /\ hilo.etapa # "no"
      BY <1>12 DEF DespacharEliminacion, Visto, EnTurno
    <2>2. UNCHANGED <<ledger, ct>> /\ hilo' = [accion |-> "eliminar", etapa |-> "vuelo"]
      BY <1>12 DEF DespacharEliminacion, Enviar
    <2> QED BY <2>1, <2>2
  <1>13. CASE TomarUpid
    BY <1>13 DEF TomarUpid, EnTurno, Sigue, SinCorrida
  <1>14. CASE SinTarea
    BY <1>14 DEF SinTarea, EnTurno, Incierta, OrdenIncierta, LedgerIncierto, SinCorrida
  <1>15. CASE TareaVencida
    BY <1>15 DEF TareaVencida, EnTurno, Incierta, OrdenIncierta, LedgerIncierto, SinCorrida
  <1>16. CASE Materializar
    BY <1>16 DEF Materializar, Visto, Presente, LedgerMaterializado, Sigue, SinCorrida
  <1>17. CASE RevisarPausa
    BY <1>17 DEF RevisarPausa, Visto, SinCorrida
  <1>18. CASE RevisarBaja
    BY <1>18 DEF RevisarBaja, Visto, SinCorrida
  <1>19. CASE YaDetenido
    BY <1>19 DEF YaDetenido, Visto, Sigue, SinCorrida
  <1>20. CASE ConfirmarDetenido
    BY <1>20 DEF ConfirmarDetenido, Visto, Confirmar, EstadoConfirmado, PedidoConfirmado,
       ObsConfirma, LedgerMaterializado, SinCorrida
  <1>21. CASE ConfirmarPorPlazo
    BY <1>21 DEF ConfirmarPorPlazo, Visto, Confirmar, EstadoConfirmado, PedidoConfirmado,
       ObsConfirma, LedgerMaterializado, SinCorrida
  <1>22. CASE TareaFallida
    BY <1>22 DEF TareaFallida, Visto, Fallar, LiberaAlFallar, LedgerLiberado, LedgerIncierto,
       SinCorrida
  <1>23. CASE TareaLograda
    BY <1>23 DEF TareaLograda, Visto, VistoPara, Sigue, SinCorrida
  <1>24. CASE ConfirmarTarea
    BY <1>24 DEF ConfirmarTarea, Visto, Confirmar, EstadoConfirmado, PedidoConfirmado,
       ObsConfirma, LedgerMaterializado, SinCorrida
  <1>25. CASE ConfirmarBaja
    BY <1>25 DEF ConfirmarBaja, Visto, LedgerLiberado, SinCorrida
  <1>26. CASE RevisarCobertura
    BY <1>26 DEF RevisarCobertura, Visto, Presente, VistoPara, Sigue, SinCorrida
  <1>27. CASE PreparacionFallida
    BY <1>27 DEF PreparacionFallida, Fallar, LiberaAlFallar, LedgerLiberado, LedgerIncierto,
       SinCorrida
  <1>28. CASE Entregar
    BY <1>28 DEF Entregar, Visto, Confirmar, EstadoConfirmado, PedidoConfirmado, ObsConfirma,
       LedgerMaterializado, SinCorrida
  <1>29. CASE NoVerificable
    BY <1>29 DEF NoVerificable, Incierta, OrdenIncierta, LedgerIncierto, SinCorrida
  <1> HIDE DEF TypeOK, Pedidos, EstadosPedido, Ledgers, Servicios, Operaciones, Corridas, Hilos,
         OPEN, Acciones, Miradas, Cts, Ligaduras, CorridaConOrden, FaseDeVista,
         IdentidadAntesDelEnvio, UnaCreacion, OrdenRespaldada, PorCrear, EnEfecto, PuedeExistir,
         EnVuelo, Abierta, LedgerAbierto
  <1> HIDE DEF Recurso, Promesa!Next, Promesa!vars, Promesa!Retener, Promesa!Enviar, Promesa!Nacer,
         Promesa!Fracasar, Promesa!Desaparecer, Promesa!Liberar
  <1> QED BY Zenon, <1>1, <1>2, <1>3, <1>4, <1>5, <1>6, <1>7, <1>8, <1>9, <1>10, <1>11, <1>12, <1>13,
         <1>14, <1>15, <1>16, <1>17, <1>18, <1>19, <1>20, <1>21, <1>22, <1>23, <1>24, <1>25,
         <1>26, <1>27, <1>28, <1>29 DEF Turno

(* The environment keeps the promise.                                      *)
LEMMA EntornoPromesa ==
  ASSUME TypeOK, Ligaduras, Tarea \/ Externo \/ Reloj
  PROVE  [Promesa!Next]_(Promesa!vars)
  <1> USE DEF TypeOK, Pedidos, EstadosPedido, Ledgers, Servicios, Operaciones, Corridas, Hilos,
         OPEN, Acciones, Miradas, Cts
  <1> USE DEF Ligaduras, CorridaConOrden, FaseDeVista, IdentidadAntesDelEnvio, UnaCreacion,
         OrdenRespaldada, PorCrear, EnEfecto, PuedeExistir, EnVuelo, Abierta, LedgerAbierto
  <1> USE DEF Recurso, Promesa!Next, Promesa!vars, Promesa!Retener, Promesa!Enviar, Promesa!Nacer,
         Promesa!Fracasar, Promesa!Desaparecer, Promesa!Liberar
  <1>1. CASE HiloMuere
    BY <1>1 DEF HiloMuere, NadaMas
  <1>2. CASE TareaEmpieza
    BY <1>2 DEF TareaEmpieza, NadaMas
  <1>3. CASE TareaExito
    BY <1>3 DEF TareaExito, Efecto, NadaMas, Acciones
  <1>4. CASE TareaFalla
    BY <1>4 DEF TareaFalla, NadaMas
  <1>5. CASE ExternoApaga
    BY <1>5 DEF ExternoApaga, NadaMas
  <1>6. CASE ExternoEnciende
    BY <1>6 DEF ExternoEnciende, NadaMas
  <1>7. CASE ExternoBorra
    BY <1>7 DEF ExternoBorra, NadaMas
  <1>8. CASE Comienza
    BY <1>8 DEF Comienza
  <1>9. CASE Vence
    BY <1>9 DEF Vence
  <1>10. CASE CaducaReserva
    BY <1>10 DEF CaducaReserva
  <1>11. CASE VencePlazo
    BY <1>11 DEF VencePlazo
  <1> HIDE DEF TypeOK, Pedidos, EstadosPedido, Ledgers, Servicios, Operaciones, Corridas, Hilos,
         OPEN, Acciones, Miradas, Cts, Ligaduras, CorridaConOrden, FaseDeVista,
         IdentidadAntesDelEnvio, UnaCreacion, OrdenRespaldada, PorCrear, EnEfecto, PuedeExistir,
         EnVuelo, Abierta, LedgerAbierto
  <1> HIDE DEF Recurso, Promesa!Next, Promesa!vars, Promesa!Retener, Promesa!Enviar, Promesa!Nacer,
         Promesa!Fracasar, Promesa!Desaparecer, Promesa!Liberar
  <1> QED BY <1>1, <1>2, <1>3, <1>4, <1>5, <1>6, <1>7, <1>8, <1>9, <1>10, <1>11 DEF Tarea, Externo, Reloj

(* The system implements RecursoReservado: capacity is retained before     *)
(* anything is asked of Proxmox and until the resource is known to be      *)
(* gone, and an order creates at most one resource in all its life.        *)
THEOREM CumplePromesaReserva == Spec => PromesaReserva
  <1>1. Init => Promesa!Init
    BY DEF Init, Promesa!Init, LedgerAbierto, Recurso
  <1>2. TypeOK /\ Ligaduras /\ [Next]_vars => [Promesa!Next]_(Promesa!vars)
    <2> SUFFICES ASSUME TypeOK, Ligaduras, [Next]_vars PROVE [Promesa!Next]_(Promesa!vars)
      OBVIOUS
    <2>1. CASE Next
      BY <2>1, DecisionPromesa, TurnoPromesa, EntornoPromesa DEF Next
    <2>2. CASE UNCHANGED vars
      BY <2>2 DEF vars, Promesa!vars, LedgerAbierto, Recurso, EnVuelo
    <2> QED BY <2>1, <2>2
  <1> QED BY TiposSiempre, LigadurasSiempre, <1>1, <1>2, PTL DEF Spec, PromesaReserva, Promesa!Spec

----------------------------------------------------------------------------
(* The schedule.  No other step than an approval and the two of the job    *)
(* writes the revision, the scheduled revision or the intention.           *)
MismaAgenda == UNCHANGED <<pedido.rev, pedido.programada, pedido.intencion>>

AgendaDeLaDecision ==
  /\ pedido.programada <= pedido.rev
  /\ pedido.programada # 0 /\ AgendaVigente => pedido.intencion = "programado"

(* The executor only moves the state of the order.                         *)
LEMMA TurnoMismaAgenda ==
  ASSUME TypeOK, Turno
  PROVE  MismaAgenda
  <1> DEFINE SoloEstado == pedido' = pedido \/ \E e : pedido' = [pedido EXCEPT !.estado = e]
  <1>1. ASSUME NEW ausente \in BOOLEAN, Fallar(ausente)
        PROVE  SoloEstado
    BY <1>1 DEF Fallar
  <1>2. ASSUME NEW a, NEW b \in BOOLEAN, Confirmar(a, b)
        PROVE  SoloEstado
    BY <1>2 DEF Confirmar
  <1>3. CASE RechazarPreparacion \/ RechazarCreacion \/ TareaFallida \/ PreparacionFallida
    BY <1>1, <1>3 DEF RechazarPreparacion, RechazarCreacion, TareaFallida, PreparacionFallida, TypeOK,
       Pedidos, MismaAgenda
  <1>4. CASE ConfirmarDetenido \/ ConfirmarPorPlazo \/ ConfirmarTarea \/ Entregar
    BY <1>2, <1>4 DEF ConfirmarDetenido, ConfirmarPorPlazo, ConfirmarTarea, Entregar, TypeOK, Pedidos,
       MismaAgenda
  <1>5. CASE ~(RechazarPreparacion \/ RechazarCreacion \/ TareaFallida \/ PreparacionFallida)
             /\ ~(ConfirmarDetenido \/ ConfirmarPorPlazo \/ ConfirmarTarea \/ Entregar)
    <2>1. UNCHANGED pedido
      BY <1>5 DEF Turno, Reclamar, Ceder, PrepararCreacion, PrepararOrden, EmpezarReparacion, Observar,
         DespacharCreacion, DespacharEncendido, DespacharDetencion, DespacharEliminacion, Enviar,
         TomarUpid, SinTarea, TareaVencida, Materializar, RevisarPausa, RevisarBaja, YaDetenido,
         TareaLograda, ConfirmarBaja, RevisarCobertura, NoVerificable, Incierta
    <2> QED BY <2>1 DEF MismaAgenda
  <1> QED BY <1>3, <1>4, <1>5

(* The environment does not touch the order.                               *)
LEMMA EntornoMismaAgenda ==
  ASSUME Tarea \/ Externo \/ Reloj
  PROVE  MismaAgenda
  <1>1. UNCHANGED pedido
    BY DEF Tarea, Externo, Reloj, HiloMuere, TareaEmpieza, TareaExito, TareaFalla, ExternoApaga,
       ExternoEnciende, ExternoBorra, NadaMas, Comienza, Vence, CaducaReserva, VencePlazo
  <1> QED BY <1>1 DEF MismaAgenda

(* Nor do the other decisions.                                             *)
LEMMA DecisionMismaAgenda ==
  ASSUME TypeOK, Decision, ~AgendaObsoleta, ~AgendaDespacha,
         \A i \in {"manual", "inmediato", "programado"}, p \in {"futura", "vigente"} : ~Aprobar(i, p)
  PROVE  MismaAgenda
  <1> USE DEF TypeOK, Pedidos, MismaAgenda
  <1>1. CASE Desplegar
    BY <1>1 DEF Desplegar, EncolarDespliegue
  <1>2. ASSUME NEW e \in EstadosPedido, NEW b \in BOOLEAN, LiberarPedido(e, b)
        PROVE  MismaAgenda
    BY <1>2 DEF LiberarPedido
  <1>3. CASE Revertir \/ ExpirarReserva
    BY <1>2, <1>3 DEF Revertir, ExpirarReserva, EstadosPedido
  <1>4. CASE Ajustar
    BY <1>2, <1>4 DEF Ajustar, Transicionar, EstadosPedido
  <1>5. CASE DarDeBaja
    BY <1>2, <1>5 DEF DarDeBaja, EstadosPedido
  <1>6. CASE Resolver \/ Reintentar \/ VerificarAcceso
    BY <1>6 DEF Resolver, Reintentar, VerificarAcceso, Transicionar
  <1>7. CASE Iniciar \/ RepararAcceso \/ Renovar \/ AplicarVencimiento
    BY <1>7 DEF Iniciar, RepararAcceso, Renovar, AplicarVencimiento
  <1>8. ASSUME NEW t, AdmitirOrden(t)
        PROVE  MismaAgenda
    BY <1>8 DEF AdmitirOrden
  <1>9. ASSUME NEW c, Sincronizar(c)
        PROVE  MismaAgenda
    BY <1>9 DEF Sincronizar
  <1> QED BY <1>1, <1>3, <1>4, <1>5, <1>6, <1>7, <1>8, <1>9 DEF Decision

(* A step keeps what the schedule names, and deploys only from it.         *)
LEMMA PasoAgenda ==
  ASSUME TypeOK, AgendaDeLaDecision, [Next]_vars
  PROVE  /\ AgendaDeLaDecision'
         /\ pedido.programada # 0 /\ pedido'.programada = 0 /\ pedido'.estado = "EN_DESPLIEGUE"
              => pedido.intencion = "programado"
  <1>0. pedido \in Pedidos /\ pedido.rev \in Nat /\ pedido.programada \in Nat
    BY ConstantesAssumption DEF TypeOK, Pedidos
  <1>1. ASSUME NEW i \in {"manual", "inmediato", "programado"}, NEW p \in {"futura", "vigente"}, Aprobar(i, p)
        PROVE  /\ pedido'.rev = pedido.rev + 1 /\ pedido'.intencion = i
               /\ pedido'.programada = IF i = "programado" THEN pedido.rev + 1 ELSE pedido.programada
    BY <1>0, <1>1 DEF Aprobar, Pedidos
  <1>2. CASE \E i \in {"manual", "inmediato", "programado"}, p \in {"futura", "vigente"} : Aprobar(i, p)
    BY <1>0, <1>1, <1>2 DEF AgendaDeLaDecision, AgendaVigente
  <1>3. CASE AgendaObsoleta
    BY <1>0, <1>3 DEF AgendaObsoleta, AgendaDeLaDecision, AgendaVigente, Pedidos
  <1>4. CASE AgendaDespacha
    BY <1>0, <1>4 DEF AgendaDespacha, EncolarDespliegue, AgendaDeLaDecision, AgendaVigente, Pedidos
  <1>5. CASE MismaAgenda
    BY <1>0, <1>5 DEF MismaAgenda, AgendaDeLaDecision, AgendaVigente
  <1>6. UNCHANGED vars => MismaAgenda
    BY DEF vars, MismaAgenda
  <1> QED
    BY <1>2, <1>3, <1>4, <1>5, <1>6, TurnoMismaAgenda, EntornoMismaAgenda, DecisionMismaAgenda DEF Next

(* The schedule never deploys an order whose decision in force did not     *)
(* schedule it: a schedule of an older decision never names the revision   *)
(* of the new one.                                                         *)
THEOREM AgendaSiempre == Spec => AgendaSoloProgramada
  <1>1. Init => AgendaDeLaDecision
    BY DEF Init, AgendaDeLaDecision
  <1>2. TypeOK /\ AgendaDeLaDecision /\ [Next]_vars
          => /\ AgendaDeLaDecision'
             /\ [pedido.programada # 0 /\ pedido'.programada = 0 /\ pedido'.estado = "EN_DESPLIEGUE"
                   => pedido.intencion = "programado"]_vars
    BY PasoAgenda
  <1> QED BY TiposSiempre, <1>1, <1>2, PTL DEF Spec, AgendaSoloProgramada

----------------------------------------------------------------------------
(* The dispatches of the order, as DespachoDeOrden shows them.             *)
PasoDespacho == [Despacho!Next]_(Despacho!vars)

(* What the links say of it: nothing is on its way but for the row that    *)
(* sent it, and a row that was not sent owes nothing.                      *)
LEMMA VistaBien ==
  ASSUME TypeOK, Ligaduras
  PROVE  /\ FilaVista # "enviada" => hilo.etapa \notin {"vuelo", "corre"}
         /\ Abierta' \in BOOLEAN /\ Abierta \in BOOLEAN /\ op.plazo \in BOOLEAN
         /\ hilo.etapa = "vuelo" => ~op.plazo
         /\ FilaVista = "enviada" <=> EnEfecto
         /\ FilaVista = "lista" <=> Abierta /\ op.fase \notin {"dispatch_started", "tarea"}
  <1>1. EnVuelo => EnEfecto /\ (op.plazo => hilo.etapa = "corre")
    BY DEF Ligaduras, OrdenRespaldada
  <1>. QED  BY <1>1 DEF FilaVista, EnEfecto, EnVuelo, Abierta, TypeOK, Operaciones

(* A step that keeps the thread, and moves the row between phases in which *)
(* it shows the same.                                                      *)
LEMMA FilaIgual ==
  ASSUME TypeOK, Ligaduras, UNCHANGED hilo, Abierta' <=> Abierta, op'.plazo = op.plazo,
         \/ op'.fase = op.fase
         \/ {op.fase, op'.fase} \subseteq {"dispatch_started", "tarea"}
         \/ {op.fase, op'.fase} \cap {"dispatch_started", "tarea"} = {}
  PROVE  PasoDespacho
  <1>1. FilaVista' = FilaVista /\ (EnEfecto /\ op.plazo)' = (EnEfecto /\ op.plazo)
    BY DEF FilaVista, EnEfecto
  <1>. QED  BY <1>1 DEF PasoDespacho, Despacho!vars

(* A step that leaves the operation and its thread alone.                  *)
LEMMA OrdenIgual ==
  ASSUME TypeOK, Ligaduras, UNCHANGED <<op, hilo>>
  PROVE  PasoDespacho
  <1>1. Abierta' <=> Abierta
    BY DEF Abierta
  <1>. QED  BY <1>1, FilaIgual

(* A new operation: nothing of an earlier one is on its way.               *)
LEMMA OrdenAbre ==
  ASSUME TypeOK, Ligaduras, ~Abierta, NEW t, NEW b, NuevaOrden(t, b), UNCHANGED hilo
  PROVE  PasoDespacho
  <1>1. FilaVista = "cerrada" /\ FilaVista' = "lista" /\ ~EnEfecto /\ ~EnEfecto'
    BY DEF FilaVista, EnEfecto, Abierta, NuevaOrden, OPEN
  <1>2. hilo.etapa \notin {"vuelo", "corre"}
    BY <1>1, VistaBien
  <1>3. Despacho!Abrir
    BY <1>1, <1>2 DEF Despacho!Abrir, Despacho!Quieto
  <1>. QED  BY <1>3 DEF PasoDespacho, Despacho!Next

(* A row that was not sent, or whose task ended, or whose deadline passed, *)
(* is closed.                                                              *)
LEMMA OrdenCierra ==
  ASSUME TypeOK, Ligaduras, Abierta, ~Abierta', UNCHANGED hilo,
         \/ op.fase \notin {"dispatch_started", "tarea"}
         \/ hilo.etapa \in {"exito", "fallo"} \/ op.plazo
  PROVE  PasoDespacho
  <1>1. FilaVista' = "cerrada" /\ ~EnEfecto'
    BY DEF FilaVista, EnEfecto
  <1>2. FilaVista = "lista" \/ (FilaVista = "enviada" /\ (hilo.etapa \in {"exito", "fallo"} \/ op.plazo))
    BY DEF FilaVista, EnEfecto
  <1>3. Despacho!Cerrar
    BY <1>1, <1>2, VistaBien DEF Despacho!Cerrar
  <1>. QED  BY <1>3 DEF PasoDespacho, Despacho!Next

(* The loop goes on after a task that ended.                               *)
LEMMA OrdenSigue ==
  ASSUME TypeOK, Ligaduras, Abierta, op.fase = "tarea", hilo.etapa \in {"exito", "fallo"},
         NEW f, f \notin {"dispatch_started", "tarea"}, Sigue(f), UNCHANGED hilo
  PROVE  PasoDespacho
  <1>1. op' = [op EXCEPT !.fase = f] /\ op \in Operaciones
    BY DEF Sigue, TypeOK
  <1>2. FilaVista = "enviada" /\ FilaVista' = "lista" /\ ~EnEfecto'
    BY <1>1 DEF FilaVista, EnEfecto, Abierta, Operaciones
  <1>3. Despacho!Seguir
    BY <1>2 DEF Despacho!Seguir
  <1>. QED  BY <1>3 DEF PasoDespacho, Despacho!Next

(* A dispatch from a row that was not sent.                                *)
LEMMA OrdenMarca ==
  ASSUME TypeOK, Ligaduras, Abierta, op.fase \notin {"dispatch_started", "tarea"},
         NEW a, Enviar(a)
  PROVE  PasoDespacho
  <1>1. /\ op' = [op EXCEPT !.fase = "dispatch_started", !.accion = a, !.enviada = TRUE,
                            !.plazo = FALSE]
        /\ hilo' = [accion |-> a, etapa |-> "vuelo"] /\ op \in Operaciones
    BY DEF Enviar, TypeOK
  <1>2. FilaVista = "lista" /\ FilaVista' = "enviada" /\ ~op'.plazo /\ hilo'.etapa = "vuelo"
    BY <1>1 DEF FilaVista, EnEfecto, Abierta, Operaciones
  <1>3. hilo.etapa \notin {"vuelo", "corre"}
    BY <1>2, VistaBien
  <1>4. Despacho!Marcar
    BY <1>2, <1>3 DEF Despacho!Marcar, Despacho!Quieto
  <1>. QED  BY <1>4 DEF PasoDespacho, Despacho!Next

(* A decision about the order.                                             *)
LEMMA DecisionDespacho ==
  ASSUME TypeOK, Ligaduras, Decision
  PROVE  PasoDespacho
  <1>1. UNCHANGED hilo
    BY DEF Decision, Aprobar, Desplegar, EncolarDespliegue, AgendaObsoleta, AgendaDespacha, Revertir,
         ExpirarReserva, Ajustar, DarDeBaja, LiberarPedido, Resolver, Reintentar, Iniciar,
         RepararAcceso, VerificarAcceso, Renovar, AdmitirOrden, AplicarVencimiento, Sincronizar
  <1>2. \/ UNCHANGED op
        \/ ~Abierta /\ \E t, b : NuevaOrden(t, b)
        \/ Abierta /\ op.fase = "preparacion" /\ op' = OrdenCancelada
    BY DEF Decision, Aprobar, Desplegar, EncolarDespliegue, AgendaObsoleta, AgendaDespacha, Revertir,
         ExpirarReserva, Ajustar, DarDeBaja, LiberarPedido, Liberable, Resolver, Reintentar,
         Reintentable, Iniciar, Operable, RepararAcceso, VerificarAcceso, Renovar, AdmitirOrden,
         AplicarVencimiento, Sincronizar
  <1>3. CASE Abierta /\ op.fase = "preparacion" /\ op' = OrdenCancelada
    <2>1. ~Abierta'
      BY <1>3 DEF OrdenCancelada, Abierta, OPEN, TypeOK, Operaciones
    <2>. QED  BY <1>1, <1>3, <2>1, OrdenCierra
  <1>. QED  BY <1>1, <1>2, <1>3, OrdenIgual, OrdenAbre

(* A step of the executor.                                                 *)
LEMMA TurnoDespacho ==
  ASSUME TypeOK, Ligaduras, Turno
  PROVE  PasoDespacho
  <1>1. /\ corrida.pc # "libre" => Abierta
        /\ corrida.pc = "visto" => FaseDeVista
        /\ corrida.pc = "espera" => op.fase = "dispatch_started"
        /\ corrida.pc = "preparado" => op.fase = "bootstrap"
        /\ op \in Operaciones
    BY DEF Ligaduras, CorridaConOrden, TypeOK
  <1>2. ASSUME NEW x \in BOOLEAN, Fallar(x), Abierta,
               op.fase \notin {"dispatch_started", "tarea"} \/ hilo.etapa \in {"exito", "fallo"}
        PROVE  PasoDespacho
    <2>1. UNCHANGED hilo /\ ~Abierta'
      BY <1>1, <1>2 DEF Fallar, Abierta, OPEN, Operaciones
    <2>. QED  BY <1>2, <2>1, OrdenCierra
  <1>3. ASSUME NEW a, NEW b, Confirmar(a, b), Abierta,
               \/ op.fase \notin {"dispatch_started", "tarea"}
               \/ hilo.etapa \in {"exito", "fallo"} \/ op.plazo
        PROVE  PasoDespacho
    <2>1. UNCHANGED hilo /\ ~Abierta'
      BY <1>1, <1>3 DEF Confirmar, Abierta, OPEN, Operaciones
    <2>. QED  BY <1>3, <2>1, OrdenCierra
  <1>4. ASSUME Incierta, Abierta PROVE PasoDespacho
    <2>1. UNCHANGED hilo /\ op' = [op EXCEPT !.estado = "incierta"]
      BY <1>4 DEF Incierta, OrdenIncierta
    <2>2. Abierta' /\ op'.fase = op.fase /\ op'.plazo = op.plazo
      BY <1>1, <2>1 DEF Abierta, OPEN, Operaciones
    <2>. QED  BY <1>4, <2>1, <2>2, FilaIgual
  <1>5. ASSUME NEW f, Sigue(f), Abierta, UNCHANGED hilo,
               \/ {op.fase, f} \subseteq {"dispatch_started", "tarea"}
               \/ {op.fase, f} \cap {"dispatch_started", "tarea"} = {}
        PROVE  PasoDespacho
    <2>1. op'.fase = f /\ op'.plazo = op.plazo /\ Abierta'
      BY <1>1, <1>5 DEF Sigue, Abierta, Operaciones
    <2>. QED  BY <1>5, <2>1, FilaIgual
  <1>6. CASE Reclamar
    <2>1. UNCHANGED hilo /\ Abierta /\ op' = [op EXCEPT !.estado = "en_curso"]
      BY <1>6 DEF Reclamar
    <2>2. Abierta' /\ op'.fase = op.fase /\ op'.plazo = op.plazo
      BY <1>1, <2>1 DEF Abierta, OPEN, Operaciones
    <2>. QED  BY <2>1, <2>2, FilaIgual
  <1>7. CASE Ceder \/ Observar \/ RevisarBaja
    BY <1>7, OrdenIgual DEF Ceder, Observar, RevisarBaja
  <1>8. CASE PrepararCreacion \/ PrepararOrden \/ EmpezarReparacion
    BY <1>1, <1>5, <1>8 DEF PrepararCreacion, PrepararOrden, EmpezarReparacion, EnTurno
  <1>9. CASE RechazarPreparacion \/ RechazarCreacion \/ PreparacionFallida
    BY <1>1, <1>2, <1>9 DEF RechazarPreparacion, RechazarCreacion, PreparacionFallida, EnTurno
  <1>10. CASE DespacharCreacion \/ DespacharEncendido \/ DespacharDetencion \/ DespacharEliminacion
    BY <1>1, <1>10, OrdenMarca DEF DespacharCreacion, DespacharEncendido, DespacharDetencion,
         DespacharEliminacion, EnTurno, Visto, FaseDeVista
  <1>11. CASE TomarUpid
    BY <1>1, <1>5, <1>11 DEF TomarUpid, EnTurno
  <1>12. CASE SinTarea \/ TareaVencida
    BY <1>1, <1>4, <1>12 DEF SinTarea, TareaVencida, EnTurno
  <1>13. CASE Materializar
    <2>1. Abierta /\ Sigue("bootstrap") /\ UNCHANGED hilo
          /\ (op.fase = "preparacion" \/ (op.fase = "tarea" /\ hilo.etapa = "exito"))
      BY <1>1, <1>13 DEF Materializar, Visto, FaseDeVista
    <2>. QED  BY <1>5, <2>1, OrdenSigue
  <1>14. CASE RevisarPausa
    <2>1. UNCHANGED hilo /\ Abierta /\ op.fase \in {"lista", "detencion_necesaria"}
      BY <1>1, <1>14 DEF RevisarPausa, Visto, FaseDeVista
    <2>2. UNCHANGED op \/ op' = [op EXCEPT !.estado = "confirmada", !.fase = "verificacion"]
      BY <1>14 DEF RevisarPausa
    <2>3. UNCHANGED op \/ ~Abierta'
      BY <1>1, <2>2 DEF Abierta, OPEN, Operaciones
    <2>. QED  BY <2>1, <2>3, OrdenIgual, OrdenCierra
  <1>15. CASE YaDetenido
    BY <1>1, <1>5, <1>15 DEF YaDetenido, Visto, FaseDeVista
  <1>16. CASE ConfirmarDetenido
    BY <1>1, <1>3, <1>16 DEF ConfirmarDetenido, Visto, FaseDeVista
  <1>17. CASE ConfirmarPorPlazo
    BY <1>1, <1>3, <1>17 DEF ConfirmarPorPlazo, Visto, FaseDeVista
  <1>18. CASE TareaFallida
    BY <1>1, <1>2, <1>18 DEF TareaFallida, Visto, FaseDeVista
  <1>19. CASE TareaLograda
    <2>1. Abierta /\ op.fase = "tarea" /\ hilo.etapa = "exito" /\ UNCHANGED hilo
      BY <1>1, <1>19 DEF TareaLograda, Visto, FaseDeVista
    <2>2. Sigue("eliminacion_necesaria") \/ Sigue("detencion_necesaria") \/ UNCHANGED op
      BY <1>19 DEF TareaLograda, VistoPara
    <2>. QED  BY <2>1, <2>2, OrdenSigue, OrdenIgual
  <1>20. CASE ConfirmarTarea
    BY <1>1, <1>3, <1>20 DEF ConfirmarTarea, Visto, FaseDeVista
  <1>21. CASE ConfirmarBaja
    <2>1. /\ UNCHANGED hilo /\ Abierta
          /\ op.fase \notin {"dispatch_started", "tarea"} \/ hilo.etapa \in {"exito", "fallo"}
      BY <1>1, <1>21 DEF ConfirmarBaja, Visto, FaseDeVista
    <2>2. ~Abierta'
      BY <1>1, <1>21 DEF ConfirmarBaja, Abierta, OPEN, Operaciones
    <2>. QED  BY <2>1, <2>2, OrdenCierra
  <1>22. CASE RevisarCobertura
    <2>1. Abierta /\ op.fase = "bootstrap" /\ UNCHANGED hilo
      BY <1>1, <1>22 DEF RevisarCobertura, Visto, FaseDeVista
    <2>2. Sigue("detencion_necesaria") \/ UNCHANGED op
      BY <1>22 DEF RevisarCobertura, VistoPara
    <2>. QED  BY <1>5, <2>1, <2>2, OrdenIgual
  <1>23. CASE Entregar
    BY <1>1, <1>3, <1>23 DEF Entregar, Visto, FaseDeVista
  <1>24. CASE NoVerificable
    BY <1>1, <1>4, <1>24 DEF NoVerificable, Lee, Mira, EnTurno
  <1>. QED
    BY Zenon, <1>6, <1>7, <1>8, <1>9, <1>10, <1>11, <1>12, <1>13, <1>14, <1>15, <1>16, <1>17, <1>18,
       <1>19, <1>20, <1>21, <1>22, <1>23, <1>24 DEF Turno

(* A step of Proxmox, of its thread or of the clock.                       *)
LEMMA EntornoDespacho ==
  ASSUME TypeOK, Ligaduras, Tarea \/ Externo \/ Reloj
  PROVE  PasoDespacho
  <1>1. hilo \in Hilos /\ op \in Operaciones
    BY DEF TypeOK
  <1>2. ASSUME UNCHANGED op PROVE FilaVista' = FilaVista /\ EnEfecto' = EnEfecto /\ op'.plazo = op.plazo
    BY <1>2 DEF FilaVista, EnEfecto, Abierta
  <1>3. CASE HiloMuere
    <2>1. UNCHANGED op /\ hilo.etapa = "vuelo" /\ hilo'.etapa = "muerto"
      BY <1>1, <1>3 DEF HiloMuere, NadaMas, Hilos
    <2>. QED  BY <1>2, <2>1 DEF PasoDespacho, Despacho!Next, Despacho!Morir
  <1>4. CASE TareaEmpieza
    <2>1. UNCHANGED op /\ hilo.etapa = "vuelo" /\ hilo'.etapa = "corre"
      BY <1>1, <1>4 DEF TareaEmpieza, NadaMas, Hilos
    <2>2. FilaVista = "enviada" /\ ~op.plazo
      BY <2>1, VistaBien
    <2>. QED  BY <1>2, <2>1, <2>2 DEF PasoDespacho, Despacho!Next, Despacho!Empezar
  <1>5. CASE TareaExito \/ TareaFalla
    <2>1. UNCHANGED op /\ hilo.etapa = "corre" /\ hilo'.etapa \in {"exito", "fallo"}
      BY <1>1, <1>5 DEF TareaExito, TareaFalla, NadaMas, Hilos
    <2>. QED  BY <1>2, <2>1 DEF PasoDespacho, Despacho!Next, Despacho!Acabar
  <1>6. CASE Externo \/ Comienza \/ Vence \/ CaducaReserva
    BY <1>6, OrdenIgual DEF Externo, ExternoApaga, ExternoEnciende, ExternoBorra, NadaMas, Comienza,
         Vence, CaducaReserva
  <1>7. CASE VencePlazo
    <2>1. UNCHANGED hilo /\ op' = [op EXCEPT !.plazo = TRUE] /\ EnEfecto /\ ~op.plazo /\ hilo.etapa # "vuelo"
      BY <1>7 DEF VencePlazo, EnEfecto
    <2>2. FilaVista = "enviada" /\ FilaVista' = "enviada" /\ EnEfecto' /\ op'.plazo = TRUE
      BY <1>1, <2>1 DEF FilaVista, EnEfecto, Abierta, Operaciones
    <2>. QED  BY <2>1, <2>2 DEF PasoDespacho, Despacho!Next, Despacho!Vencer
  <1>. QED  BY <1>3, <1>4, <1>5, <1>6, <1>7 DEF Tarea, Reloj

(* The order relies on no more about its dispatches than what the lease    *)
(* protocol keeps (DespachosEnOrdenSiempre in EnvioConLease_proofs), and   *)
(* never sends, closes or opens over a request that may still act.         *)
THEOREM DespachoEnOrdenSiempre == Spec => DespachoEnOrden
  <1>1. Init => Despacho!Init
    BY DEF Init, Despacho!Init, FilaVista, EnEfecto, Abierta, OPEN
  <1>2. TypeOK /\ Ligaduras /\ [Next]_vars => [Despacho!Next]_(Despacho!vars)
    <2>1. ASSUME TypeOK, Ligaduras, UNCHANGED vars PROVE PasoDespacho
      BY <2>1, OrdenIgual DEF vars
    <2>. QED
      BY <2>1, DecisionDespacho, TurnoDespacho, EntornoDespacho DEF Next, PasoDespacho
  <1>. QED  BY TiposSiempre, LigadurasSiempre, <1>1, <1>2, PTL DEF Spec, DespachoEnOrden, Despacho!Spec
=============================================================================
