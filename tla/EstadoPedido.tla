---------------------------- MODULE EstadoPedido ----------------------------
(***************************************************************************)
(* The rows that follow one order for a new resource (Pedido of type ALTA, *)
(* LXC, not an OCI application) through its whole life, and what Proxmox   *)
(* holds of it.  Admision, Ejecutor and Entorno are the actors that     *)
(* change this state; CicloServicio composes them.                         *)
(*                                                                         *)
(* One order is enough: rows of different orders meet only in the capacity *)
(* lock 4001, which every admission and every write of the executor takes, *)
(* so each of them is one atomic step; sums over orders are not modelled.  *)
(* An order has at most one identity, one service and one open operation   *)
(* (unique indexes), so `op' is the row of the latest operation.           *)
(***************************************************************************)
EXTENDS Naturals

CONSTANTS
  IaaS,      \* the template is a plain Linux (asignacion.origen proxmox_iaas)
  ORDENES,   \* bound: the orders people and the inactivity job give; all: TodasLasOrdenes
  EXTERNOS,  \* what an operator may do behind NAP: {"enciende", "borra"}
  MaxRev,    \* bound: approvals of the order
  MaxRenov   \* bound: renewals after the coverage lapsed

TodasLasOrdenes == {"iniciar", "detener", "reiniciar", "pausar", "eliminar", "reparar"}

ASSUME ConstantesAssumption ==
  /\ IaaS \in BOOLEAN
  /\ ORDENES \subseteq TodasLasOrdenes
  /\ EXTERNOS \subseteq {"enciende", "borra"}
  /\ MaxRev \in Nat /\ MaxRenov \in Nat

VARIABLES
  pedido,     \* Pedido: estado, deleted_at, revision_decision, scheduled revision
  cobertura,  \* the authorised period, against clock.now()
  ledger,     \* CompromisoCapacidad: estado, retained compute, expira_at
  identidad,  \* IdentidadInfraestructura.estado
  servicio,   \* Servicio: estado, pausado_auto_at, preparacion_confirmada
  op,         \* the latest OperacionInfraestructura of the order
  corrida,    \* what the run of procesar_lease that holds the lease remembers
  hilo,       \* the thread of the latest dispatch and the task it started
  ct,         \* the container with the order's mark
  vencida     \* aplicar_vencimientos: a decision is stored for this boundary;
              \* and the renewals granted so far

vars == <<pedido, cobertura, ledger, identidad, servicio, op, corrida, hilo, ct, vencida>>

EstadosPedido == {"SOLICITADO", "REQUIERE_AJUSTE", "APROBADO", "EN_DESPLIEGUE", "ACTIVO",
                  "SUSPENDIDO", "ERROR", "CANCELADO", "RECHAZADO"}
OPEN == {"pendiente", "en_curso", "incierta"}
Acciones == {"crear", "iniciar", "detener", "reiniciar", "eliminar"}
Miradas == {"obsoleta", "baja", "detener", "tarea", "encendido", "plazo", "materializar",
            "preparar", "entregar", "entregado"}
Cts == {"ausente", "detenido", "corriendo"}

Pedidos == [estado : EstadosPedido, baja : BOOLEAN, rev : 0..MaxRev, programada : 0..MaxRev,
            intencion : {"ninguna", "manual", "inmediato", "programado"}]
Ledgers == [estado : {"no", "reservado", "materializado", "incierto", "liberado"},
            computo : BOOLEAN, expira : {"nunca", "pendiente", "pasada"}]
Servicios == [estado : {"no", "RUNNING", "STOPPED", "PAUSED", "retirado"},
              pausado : BOOLEAN, preparado : BOOLEAN]
Operaciones ==
  [tipo : {"ninguna", "desplegar", "iniciar", "detener", "reiniciar", "pausar", "eliminar", "reparar"},
   vencimiento : BOOLEAN, estado : OPEN \cup {"confirmada", "fallida", "ninguno"},
   fase : {"preparacion", "lista", "dispatch_started", "tarea", "bootstrap", "detencion_necesaria",
           "eliminacion_necesaria", "verificacion", "cancelada"},
   accion : Acciones \cup {"bootstrap"}, enviada : BOOLEAN, plazo : BOOLEAN]
Corridas == [pc : {"libre", "turno", "visto", "preparado", "espera"},
             para : Miradas \cup {"nada"}, obs : Cts \cup {"ajena"}]
Hilos == [accion : Acciones \cup {"ninguna"},
          etapa : {"no", "vuelo", "muerto", "corre", "exito", "fallo"}]

TypeOK ==
  /\ pedido \in Pedidos
  /\ cobertura \in {"sin", "futura", "vigente", "vencida"}
  /\ ledger \in Ledgers
  /\ identidad \in {"no", "reclamada", "materializada", "incierta", "retirada"}
  /\ servicio \in Servicios
  /\ op \in Operaciones
  /\ corrida \in Corridas
  /\ hilo \in Hilos
  /\ ct \in Cts
  /\ vencida \in [decidida : BOOLEAN, renovaciones : 0..MaxRenov]

SinCorrida == [pc |-> "libre", para |-> "nada", obs |-> "ajena"]

(* A request that was created and waits for a decision.                    *)
Init ==
  /\ pedido = [estado |-> "SOLICITADO", baja |-> FALSE, rev |-> 0, programada |-> 0,
               intencion |-> "ninguna"]
  /\ cobertura = "sin"
  /\ ledger = [estado |-> "no", computo |-> FALSE, expira |-> "nunca"]
  /\ identidad = "no"
  /\ servicio = [estado |-> "no", pausado |-> FALSE, preparado |-> FALSE]
  /\ op = [tipo |-> "ninguna", vencimiento |-> FALSE, estado |-> "ninguno", fase |-> "cancelada",
           accion |-> "bootstrap", enviada |-> FALSE, plazo |-> FALSE]
  /\ corrida = SinCorrida
  /\ hilo = [accion |-> "ninguna", etapa |-> "no"]
  /\ ct = "ausente"
  /\ vencida = [decidida |-> FALSE, renovaciones |-> 0]

----------------------------------------------------------------------------
Abierta == op.estado \in OPEN
LedgerAbierto == ledger.estado \in {"reservado", "materializado", "incierto"}
ServicioVivo == servicio.estado \in {"RUNNING", "STOPPED", "PAUSED"}
Cubierto == cobertura = "vigente"

(* The task of a dispatch, once Proxmox accepted the request.              *)
HayTarea == hilo.etapa \in {"corre", "exito", "fallo"}
EnVuelo == hilo.etapa \in {"vuelo", "corre"}

(* A new row of operaciones_infraestructura, pending in `preparacion'.     *)
NuevaOrden(tipo, porVencimiento) ==
  op' = [tipo |-> tipo, vencimiento |-> porVencimiento, estado |-> "pendiente",
         fase |-> "preparacion", accion |-> "bootstrap", enviada |-> FALSE, plazo |-> FALSE]

LedgerLiberado == [estado |-> "liberado", computo |-> FALSE, expira |-> "nunca"]

LedgerIncierto == [ledger EXCEPT !.estado = "incierto"]
LedgerMaterializado(computo) ==
  [estado |-> "materializado", computo |-> computo, expira |-> "nunca"]
============================================================================
