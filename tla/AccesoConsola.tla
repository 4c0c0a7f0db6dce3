---------------------------- MODULE AccesoConsola ----------------------------
(***************************************************************************)
(* Who may reach which category: accounts, holders of categories, and the  *)
(* procedures (cambios_acceso_consola) by which an account that has a      *)
(* console identity loses access.  Every category is active; a request     *)
(* names the present revision, as another is refused.                      *)
(***************************************************************************)
EXTENDS FiniteSets, Naturals

CONSTANTS
  Usuarios, Categorias,
  Nadie,   \* no holder of a category
  MaxDecisiones  \* bound: decisions of the administration

ASSUME NadieAparte == Nadie \notin Usuarios

VARIABLES
  titular,  \* catedras.titular_id
  cuenta,   \* usuarios: role, activo and the identity of inventario_consola
  tramite,  \* the open procedure of each account
  decisiones \* decisions so far

varsAcceso == <<titular, cuenta, tramite, decisiones>>

Tipos == {"nada", "categoria", "desactivar", "cambiar_rol"}
Cuentas == [admin : BOOLEAN, activo : BOOLEAN, asignada : BOOLEAN]

(* de: the category it takes away, if it is about one; a: its new holder;  *)
(* propuestos: the pools that are left.                                    *)
Tramites ==
  [tipo : Tipos, de : SUBSET Categorias, a : Usuarios \cup {Nadie},
   propuestos : SUBSET Categorias]

SinTramite ==
  [tipo |-> "nada", de |-> {}, a |-> Nadie, propuestos |-> {}]

Abierto(u) == tramite[u].tipo # "nada"
Propias(u) == {c \in Categorias : titular[c] = u}
Alcance(u) == IF cuenta[u].admin THEN Categorias ELSE Propias(u)

(* usuario_actual: a procedure about the account stops it.                 *)
Operativa(u) == cuenta[u].activo /\ tramite[u].tipo \in {"nada", "categoria"}

(* catedras_visibles                                                       *)
Visible(u, c) == Operativa(u) /\ c \in Alcance(u) \ tramite[u].de

Admins == {u \in Usuarios : cuenta[u].activo /\ cuenta[u].admin}

(* Fault: an administrator who is being removed still counts.              *)
AdminsSinMirarTramites == Admins

AdminsDisponibles == {u \in Admins : Operativa(u)}

(* _removes_admin and what must remain                                     *)
QuedaOtro(u, tipo) ==
  u \in Admins /\ tipo \in {"desactivar", "cambiar_rol"} => AdminsDisponibles \ {u} # {}

(* _proposed_scopes, before and after the change                           *)
Propuestos(u, tipo, de) ==
  CASE tipo = "desactivar" -> {}
    [] tipo = "cambiar_rol" -> Alcance(u) \cap Propias(u)
    [] tipo = "categoria" -> Alcance(u) \ de

(* deseados_por_usuario: while a procedure is open, what it leaves.        *)
Deseados(u) ==
  IF ~cuenta[u].activo THEN {}
  ELSE IF Abierto(u) THEN Alcance(u) \cap tramite[u].propuestos ELSE Alcance(u)

(* _validate_changes                                                       *)
Admisible(u, t) ==
  /\ t.tipo = "desactivar" => Propias(u) = {}
  /\ t.a # Nadie => cuenta[t.a].activo
  /\ QuedaOtro(u, t.tipo)

(* Every category has a holder.                                             *)
InitAcceso ==
  /\ titular \in [Categorias -> Usuarios]
  /\ cuenta \in [Usuarios -> [admin : BOOLEAN, activo : {TRUE}, asignada : BOOLEAN]]
  /\ Admins # {}
  /\ tramite = [u \in Usuarios |-> SinTramite]
  /\ decisiones = 0

(* _apply                                                                  *)
Aplicar(u, t) ==
  /\ titular' = [c \in Categorias |-> IF c \in t.de THEN t.a ELSE titular[c]]
  /\ cuenta' = [cuenta EXCEPT ![u].activo = @ /\ t.tipo # "desactivar",
                              ![u].admin = @ /\ t.tipo # "cambiar_rol"]

(* solicitar_cambio: an account without identity in the inventory changes  *)
(* at once; another waits for the revocation.                              *)
Solicitar(u, t) ==
  /\ ~Abierto(u) /\ Admisible(u, t)
  /\ IF ~cuenta[u].asignada
     THEN Aplicar(u, t) /\ UNCHANGED tramite
     ELSE /\ tramite' = [tramite EXCEPT ![u] =
               [t EXCEPT !.propuestos = Propuestos(u, t.tipo, t.de)]]
          /\ UNCHANGED <<titular, cuenta>>

(* actualizar_catedra, with a holder to replace                            *)
Reasignar(c, v) ==
  /\ AdminsDisponibles # {} /\ titular[c] \notin {Nadie, v}
  /\ \A u \in Usuarios : c \notin tramite[u].de
  /\ Solicitar(titular[c], [SinTramite EXCEPT !.tipo = "categoria", !.de = {c}, !.a = v])

(* actualizar_usuario and retirar_usuario; nobody deactivates itself.      *)
Desactivar(u) ==
  /\ AdminsDisponibles \ {u} # {} /\ cuenta[u].activo
  /\ Solicitar(u, [SinTramite EXCEPT !.tipo = "desactivar"])

Degradar(u) ==
  /\ AdminsDisponibles # {} /\ cuenta[u].admin
  /\ Solicitar(u, [SinTramite EXCEPT !.tipo = "cambiar_rol"])

(* The changes that give access need no procedure: a free category gets a  *)
(* holder (actualizar_catedra), and an account is activated or promoted.   *)
Asignar(c, v) ==
  /\ AdminsDisponibles # {} /\ titular[c] = Nadie
  /\ titular' = [titular EXCEPT ![c] = v]
  /\ UNCHANGED <<cuenta, tramite>>

Conceder(u) ==
  /\ AdminsDisponibles # {} /\ ~Abierto(u)
  /\ cuenta' \in {[cuenta EXCEPT ![u].activo = TRUE], [cuenta EXCEPT ![u].admin = TRUE]} \ {cuenta}
  /\ UNCHANGED <<titular, tramite>>

Vigente(u) ==
  LET t == tramite[u]
  IN cuenta[u].asignada /\ t.propuestos = Propuestos(u, t.tipo, t.de)

(* confirmar                                                               *)
Confirmable(u) == Abierto(u) /\ Admisible(u, tramite[u]) /\ Vigente(u)

Confirmar(u) ==
  /\ Confirmable(u)
  /\ Aplicar(u, tramite[u])
  /\ tramite' = [tramite EXCEPT ![u] = SinTramite]
  /\ UNCHANGED decisiones

(* An administrator confirms with the evidence of a revocation he made.    *)
ConfirmarConEvidencia(u) == AdminsDisponibles # {} /\ Confirmar(u)

Administrar ==
  /\ decisiones < MaxDecisiones /\ decisiones' = decisiones + 1
  /\ \/ \E c \in Categorias, v \in Usuarios \cup {Nadie} : Reasignar(c, v)
     \/ \E c \in Categorias, v \in Usuarios : Asignar(c, v)
     \/ \E u \in Usuarios : Desactivar(u) \/ Degradar(u) \/ Conceder(u)

TypeOKAcceso ==
  /\ titular \in [Categorias -> Usuarios \cup {Nadie}]
  /\ cuenta \in [Usuarios -> Cuentas]
  /\ tramite \in [Usuarios -> Tramites]

(* There is always an administrator who can act: two of them do not remove *)
(* each other through procedures that cross.                               *)
UltimoAdmin ==
  \E u \in Usuarios :
    cuenta[u].activo /\ cuenta[u].admin /\ tramite[u].tipo \in {"nada", "categoria"}
============================================================================
