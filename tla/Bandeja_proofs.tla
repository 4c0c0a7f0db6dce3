--------------------------- MODULE Bandeja_proofs ---------------------------
(***************************************************************************)
(* What holds of the job lock and of the outbox for any number of          *)
(* executions and messages; last, that each message keeps EntregaDeCorreo. *)
(***************************************************************************)
EXTENDS Bandeja, TLAPS

(* An execution that was relieved does not hold the lock, and one that     *)
(* reported success never was.                                             *)
RelevadaSinCerrojo ==
  \A i \in Instancias :
    /\ ejecucion[i].relevada => cerrojo.dueno # i
    /\ ejecucion[i].etapa = "suelta" /\ ejecucion[i].exito => ~ejecucion[i].relevada

(* A secret belongs to a welcome.                                          *)
SecretoDeBienvenida ==
  \A m \in Mensajes :
    mensajes[m].secreto => m \in bienvenida /\ provisoria /\ mensajes[m].estado \in Abiertos

(* While nothing is in doubt about a message, whoever works on it holds    *)
(* its claim, or the message is final; it is one execution at most; and    *)
(* whether it was delivered can be told from row and work.                 *)
En(i, m) == obra[i].fase # "nada" /\ obra[i].mensaje = m

Sostenida(m) ==
  mensajes[m].estado \in Finales \/ (mensajes[m].estado = "enviando" /\ mensajes[m].plazo)

ObraCierta ==
  \A m \in Mensajes, i \in Instancias : En(i, m) /\ ~mensajes[m].duda =>
    /\ Sostenida(m)
    /\ \A j \in Instancias : En(j, m) => j = i
    /\ obra[i].fase # "guardar" \/ obra[i].resultado = "fallida" => mensajes[m].entregas = 0

EntregaCierta ==
  \A m \in Mensajes : mensajes[m].entregas > 0 /\ ~mensajes[m].duda =>
    mensajes[m].entregas = 1 /\ Sostenida(m)

LEMMA CanceladaEsFila ==
  ASSUME mensajes \in [Mensajes -> Filas], NEW m \in Mensajes
  PROVE  Cancelada(m) \in Filas
  <1>1. mensajes[m] \in Filas /\ "cancelada" \in Abiertos \cup Finales
    BY DEF Finales
  <1>. QED  BY <1>1 DEF Cancelada, Filas

LEMMA ResueltaEsFila ==
  ASSUME mensajes \in [Mensajes -> Filas], NEW m \in Mensajes, NEW r \in Resultados
  PROVE  Resuelta(m, r) \in Filas
  <1>. DEFINE p == r = "fallida"
              s == mensajes[m].secreto /\ p
  <1>1. p \in BOOLEAN /\ s \in BOOLEAN
    OBVIOUS
  <1>2. Resuelta(m, r) =
          [mensajes[m] EXCEPT !.estado = r, !.dueno = Nadie, !.plazo = p, !.secreto = s]
    BY DEF Resuelta
  <1>3. mensajes[m] \in Filas /\ r \in Abiertos \cup Finales
    BY DEF Resultados, Abiertos
  <1>. HIDE DEF p, s
  <1>. QED  BY <1>1, <1>2, <1>3 DEF Filas

(* The rows keep their type under the steps that write them.               *)
LEMMA FilasTrasObra ==
  ASSUME TypeOK, NEW i \in Instancias, Entregar(i) \/ Guardar(i)
  PROVE  mensajes' \in [Mensajes -> Filas]
  <1>1. mensajes \in [Mensajes -> Filas] /\ obra[i].resultado \in Resultados
    BY DEF TypeOK
  <1>2. CASE Guardar(i)
    BY <1>1, <1>2, ResueltaEsFila DEF Guardar
  <1>3. CASE Entregar(i)
    <2>. DEFINE m == obra[i].mensaje
                n == IF mensajes[m].entregas < MaxEntregas THEN mensajes[m].entregas + 1
                     ELSE mensajes[m].entregas
    <2>1. PICK r \in BOOLEAN :
            mensajes' = [mensajes EXCEPT ![m] = [mensajes[m] EXCEPT !.entregas = n,
                                                   !.duda = mensajes[m].duda \/ ~r]]
      BY <1>3 DEF Entregar, Pone
    <2>. DEFINE b == mensajes[m].duda \/ ~r
    <2>2. b \in BOOLEAN
      OBVIOUS
    <2>3. m \in Mensajes => n \in 0..MaxEntregas
      BY <1>1, MaxEntregasNatural DEF Filas
    <2>4. mensajes' = [mensajes EXCEPT ![m] = [mensajes[m] EXCEPT !.entregas = n, !.duda = b]]
      BY <2>1
    <2>. HIDE DEF b, n, m
    <2>5. m \in Mensajes => [mensajes[m] EXCEPT !.entregas = n, !.duda = b] \in Filas
      BY <1>1, <2>2, <2>3 DEF Filas
    <2>. QED  BY <1>1, <2>4, <2>5
  <1>. QED  BY <1>2, <1>3

LEMMA FilasTrasEvento ==
  ASSUME mensajes \in [Mensajes -> Filas], NEW m \in Mensajes,
         Encolar(m) \/ VencePlazo(m) \/ Caduca(m) \/ CambiaDestino(m)
  PROVE  mensajes' \in [Mensajes -> Filas]
  <1>1. CASE Encolar(m)
    <2>. DEFINE b == m \in bienvenida
    <2>1. mensajes' = [mensajes EXCEPT ![m] = [mensajes[m] EXCEPT !.estado = "pendiente", !.secreto = b]]
      BY <1>1 DEF Encolar, Pone
    <2>2. b \in BOOLEAN
      OBVIOUS
    <2>. HIDE DEF b
    <2>. QED  BY <2>1, <2>2 DEF Filas, Abiertos
  <1>2. CASE VencePlazo(m)
    <2>. DEFINE b == mensajes[m].duda \/ mensajes[m].estado = "enviando"
    <2>1. mensajes' = [mensajes EXCEPT ![m] = [mensajes[m] EXCEPT !.plazo = FALSE, !.duda = b]]
      BY <1>2 DEF VencePlazo, Pone
    <2>2. b \in BOOLEAN
      OBVIOUS
    <2>. HIDE DEF b
    <2>. QED  BY <2>1, <2>2 DEF Filas
  <1>3. CASE Caduca(m)
    BY <1>3 DEF Caduca, Pone, Filas
  <1>4. CASE CambiaDestino(m)
    BY <1>4 DEF CambiaDestino, Pone, Filas
  <1>. QED  BY <1>1, <1>2, <1>3, <1>4

LEMMA CerrojoTrasTrabajo ==
  ASSUME TypeOKCerrojo, NEW i \in Instancias, Trabajo(i)
  PROVE  TypeOKCerrojo'
  <1>1. CASE Adquirir(i)
    <2>1. \A j \in Instancias : (ejecucion[j].relevada \/ Corre(j)) \in BOOLEAN
      OBVIOUS
    <2>2. ejecucion' \in [Instancias -> [etapa : {"fuera", "corre", "suelta"}, exito : BOOLEAN,
                                         relevada : BOOLEAN]]
      BY <1>1, <2>1 DEF Adquirir, TypeOKCerrojo, EnReposo
    <2>. QED  BY <1>1, <2>2 DEF TypeOKCerrojo, Adquirir
  <1>2. ASSUME NEW b \in BOOLEAN, Terminar(i, b) PROVE TypeOKCerrojo'
    BY <1>2 DEF TypeOKCerrojo, Terminar
  <1>3. CASE Soltar(i)
    BY <1>3 DEF TypeOKCerrojo, Soltar, EnReposo
  <1>4. CASE Caida(i)
    BY <1>4 DEF TypeOKCerrojo, Caida, EnReposo
  <1>5. Confirma(i) \in BOOLEAN
    BY DEF Confirma
  <1>. QED
    BY <1>1, <1>2, <1>3, <1>4, <1>5
       DEF Trabajo, Empieza, Concluye, Libera, Interrumpe, Comprobar, FallaCuerpo

LEMMA TiposPaso == TypeOK /\ [Next]_vars => TypeOK'
  <1>. SUFFICES ASSUME TypeOK, [Next]_vars PROVE TypeOK'
    OBVIOUS
  <1>. DEFINE Obras == [Instancias ->
         [fase : {"nada", "reclamada", "smtp", "guardar"}, mensaje : Mensajes \cup {Nadie},
          resultado : Resultados]]
  <1>0. TypeOKCerrojo /\ mensajes \in [Mensajes -> Filas] /\ obra \in Obras /\ SinObra \in
          [fase : {"nada", "reclamada", "smtp", "guardar"}, mensaje : Mensajes \cup {Nadie},
           resultado : Resultados]
    BY DEF TypeOK, SinObra, Resultados
  <1>1. ASSUME NEW i \in Instancias, Trabajo(i), UNCHANGED <<mensajes, usuario>> PROVE TypeOK'
    <2>1. obra' \in Obras
      BY <1>0, <1>1 DEF Trabajo, Empieza, Concluye, Libera, Interrumpe
    <2>. QED  BY <1>0, <1>1, <2>1, CerrojoTrasTrabajo DEF usuario, TypeOK
  <1>2. ASSUME NEW i \in Instancias, Leer(i) \/ Entregar(i) \/ NoEntregar(i) \/ Guardar(i)
        PROVE  TypeOK'
    <2>1. obra' \in Obras
      <3>1. obra[i] \in [fase : {"nada", "reclamada", "smtp", "guardar"},
                         mensaje : Mensajes \cup {Nadie}, resultado : Resultados]
        BY <1>0
      <3>2. CASE Leer(i)
        BY <1>0, <3>1, <3>2 DEF Leer, Avanza, Resultados, Finales
      <3>3. CASE Entregar(i)
        <4>1. PICK r \in {"enviada", "fallida"} :
                obra' = [obra EXCEPT ![i] = [obra[i] EXCEPT !.fase = "guardar", !.resultado = r]]
          BY <3>3 DEF Entregar, Avanza
        <4>. QED  BY <1>0, <3>1, <4>1 DEF Resultados, Finales
      <3>4. CASE NoEntregar(i)
        BY <1>0, <3>1, <3>4 DEF NoEntregar, Avanza, Resultados
      <3>5. CASE Guardar(i)
        BY <1>0, <3>5 DEF Guardar, Avanza
      <3>. QED  BY <1>2, <3>2, <3>3, <3>4, <3>5
    <2>2. mensajes' \in [Mensajes -> Filas]
      BY <1>0, <1>2, FilasTrasObra DEF Leer, NoEntregar
    <2>3. UNCHANGED <<varsCerrojo, usuario>>
      BY <1>2 DEF Leer, Entregar, NoEntregar, Guardar, Avanza
    <2>. QED  BY <2>1, <2>2, <2>3 DEF TypeOK, TypeOKCerrojo, varsCerrojo, usuario
  <1>3. ASSUME NEW i \in Instancias, NEW m \in Mensajes, Reclamar(i, m) PROVE TypeOK'
    <2>1. mensajes' \in [Mensajes -> Filas]
      <3>1. [mensajes[m] EXCEPT !.estado = "enviando", !.plazo = TRUE, !.dueno = i] \in Filas
        <4>1. mensajes[m] \in Filas /\ "enviando" \in Abiertos
          BY <1>0 DEF Abiertos
        <4>. QED  BY <4>1 DEF Filas
      <3>. QED  BY <1>0, <1>3, <3>1 DEF Reclamar, Pone
    <2>2. obra' \in Obras
      BY <1>0, <1>3 DEF Reclamar
    <2>. QED
      BY <1>3, <2>1, <2>2 DEF TypeOK, TypeOKCerrojo, Reclamar, varsCerrojo, usuario
  <1>4. ASSUME VenceCerrojo, UNCHANGED <<obra, mensajes, usuario>> PROVE TypeOK'
    BY <1>4 DEF VenceCerrojo, usuario, TypeOK, TypeOKCerrojo
  <1>5. ASSUME NEW m \in Mensajes, Encolar(m) \/ VencePlazo(m) \/ Caduca(m) \/ CambiaDestino(m)
        PROVE  TypeOK'
    <2>1. UNCHANGED <<varsCerrojo, obra, usuario>>
      BY <1>5 DEF Encolar, VencePlazo, Caduca, CambiaDestino
    <2>. QED
      BY <1>0, <1>5, <2>1, FilasTrasEvento DEF TypeOK, TypeOKCerrojo, varsCerrojo, usuario
  <1>6. ASSUME CambiarPassword \/ Corte \/ Habilitar PROVE TypeOK'
    <2>1. mensajes' \in [Mensajes -> Filas]
      BY <1>0, <1>6, CanceladaEsFila DEF CambiarPassword, CancelarBienvenidas, Corte, Habilitar
    <2>. QED
      BY <1>6, <2>1 DEF CambiarPassword, Corte, Habilitar, varsCerrojo, TypeOK, TypeOKCerrojo
  <1>7. CASE UNCHANGED vars
    BY <1>7 DEF vars, TypeOK, TypeOKCerrojo
  <1>. QED  BY <1>1, <1>2, <1>3, <1>4, <1>5, <1>6, <1>7 DEF Next

LEMMA TiposInicio == Init => TypeOK
  <1>. SUFFICES ASSUME Init PROVE TypeOK
    OBVIOUS
  <1>1. TypeOKCerrojo
    BY DEF Init, InitCerrojo, TypeOKCerrojo, EnReposo
  <1>2. Ausente \in Filas
    BY MaxEntregasNatural DEF Ausente, Filas
  <1>3. mensajes \in [Mensajes -> Filas] /\ obra = [i \in Instancias |-> SinObra]
    BY <1>2 DEF Init
  <1>. QED  BY <1>1, <1>3 DEF Init, TypeOK, SinObra, Resultados

(* TypeOK in every reachable state.                                        *)
THEOREM TiposSiempre == Spec => []TypeOK
  BY TiposInicio, TiposPaso, PTL DEF Spec

(* ExitoExclusivo in every reachable state: whoever takes the lock leaves  *)
(* the one it relieved without it, and success asks for the lock.          *)
THEOREM ExitoExclusivoSiempre == Spec => []ExitoExclusivo
  <1>. DEFINE I == TypeOK /\ RelevadaSinCerrojo
  <1>1. Init => I
    <2>1. Init => \A i \in Instancias : ejecucion[i] = EnReposo
      BY DEF Init, InitCerrojo
    <2>. QED  BY <2>1, TiposInicio DEF RelevadaSinCerrojo, EnReposo
  <1>2. I /\ [Next]_vars => I'
    <2>. SUFFICES ASSUME I, [Next]_vars PROVE RelevadaSinCerrojo'
      BY TiposPaso
    <2>. USE DEF RelevadaSinCerrojo
    <2>0. ejecucion \in [Instancias -> [etapa : {"fuera", "corre", "suelta"}, exito : BOOLEAN,
                                        relevada : BOOLEAN]]
      BY DEF TypeOK, TypeOKCerrojo
    <2>1. ASSUME NEW i \in Instancias, Trabajo(i) PROVE RelevadaSinCerrojo'
      <3>1. CASE Adquirir(i)
        BY <2>0, <3>1 DEF Adquirir, EnReposo, Corre
      <3>2. CASE Terminar(i, Confirma(i))
        BY <2>0, <3>2 DEF Terminar, Confirma, Propio
      <3>3. CASE Terminar(i, FALSE)
        BY <2>0, <3>3 DEF Terminar
      <3>4. CASE Soltar(i)
        BY <2>0, <3>4, InstanciasDistintas DEF Soltar, Suelta, Propio, EnReposo
      <3>5. CASE Caida(i)
        BY <2>0, <3>5, InstanciasDistintas DEF Caida, Propio, EnReposo
      <3>. QED
        BY <2>1, <3>1, <3>2, <3>3, <3>4, <3>5
           DEF Trabajo, Empieza, Concluye, Libera, Interrumpe, Comprobar, FallaCuerpo
    <2>2. CASE VenceCerrojo
      BY <2>0, <2>2 DEF VenceCerrojo
    <2>3. CASE UNCHANGED varsCerrojo
      BY <2>3 DEF varsCerrojo
    <2>. QED
      BY <2>1, <2>2, <2>3 DEF Next, vars, varsCerrojo, Leer, Entregar, NoEntregar, Guardar, Avanza,
         Reclamar, Encolar, VencePlazo, Caduca, CambiaDestino, CambiarPassword, Corte, Habilitar
  <1>3. I => ExitoExclusivo
    BY DEF RelevadaSinCerrojo, ExitoExclusivo
  <1>. QED  BY <1>1, <1>2, <1>3, PTL DEF Spec

(* CerrojoRespetado: whoever takes or deletes a lock inside its lease is   *)
(* its owner, and that execution has ended.                                *)
THEOREM CerrojoRespetadoSiempre == Spec => CerrojoRespetado
  <1>1. TypeOK /\ [Next]_vars =>
          [\A i \in Instancias :
             Propio(i) /\ cerrojo.vigente /\ cerrojo'.dueno # i => ejecucion'[i].etapa = "fuera"]_varsCerrojo
    <2>. SUFFICES ASSUME TypeOK, [Next]_vars, NEW i \in Instancias,
                         cerrojo.dueno = i, cerrojo.vigente, cerrojo'.dueno # i
                  PROVE  ejecucion'[i].etapa = "fuera"
      BY DEF Propio
    <2>0. ejecucion \in [Instancias -> [etapa : {"fuera", "corre", "suelta"}, exito : BOOLEAN,
                                        relevada : BOOLEAN]]
      BY DEF TypeOK, TypeOKCerrojo
    <2>1. ASSUME NEW j \in Instancias, Trabajo(j) PROVE ejecucion'[i].etapa = "fuera"
      <3>1. ~Adquirir(j)
        BY InstanciasDistintas DEF Adquirir, Tomable
      <3>2. cerrojo' # cerrojo
        OBVIOUS
      <3>3. CASE Soltar(j)
        BY <2>0, <3>2, <3>3 DEF Soltar, Suelta, Propio, EnReposo
      <3>4. CASE Caida(j)
        BY <2>0, <3>2, <3>4 DEF Caida, Propio, EnReposo
      <3>. QED
        BY <2>1, <3>1, <3>2, <3>3, <3>4
           DEF Trabajo, Empieza, Concluye, Libera, Interrumpe, Comprobar, FallaCuerpo, Terminar
    <2>2. ~VenceCerrojo
      BY DEF VenceCerrojo, TypeOK, TypeOKCerrojo
    <2>3. cerrojo' # cerrojo
      OBVIOUS
    <2>. QED
      BY <2>1, <2>2, <2>3 DEF Next, vars, varsCerrojo, Leer, Entregar, NoEntregar, Guardar, Avanza,
         Reclamar, Encolar, VencePlazo, Caduca, CambiaDestino, CambiarPassword, Corte, Habilitar
  <1>. QED  BY <1>1, TiposSiempre, PTL DEF Spec, CerrojoRespetado

(* FinalEsFinal: only the claim of a message that is being sent writes it. *)
THEOREM FinalEsFinalSiempre == Spec => FinalEsFinal
  <1>1. TypeOK /\ [Next]_vars =>
          [\A m \in Mensajes :
             mensajes[m].estado \in Finales => mensajes'[m].estado = mensajes[m].estado]_vars
    <2>. SUFFICES ASSUME TypeOK, [Next]_vars, NEW n \in Mensajes, mensajes[n].estado \in Finales
                  PROVE  mensajes'[n].estado = mensajes[n].estado
      OBVIOUS
    <2>0. mensajes \in [Mensajes -> Filas] /\ mensajes[n] \in Filas
      BY DEF TypeOK
    <2>. USE DEF Filas
    <2>1. ASSUME NEW i \in Instancias, Leer(i) \/ Entregar(i) \/ NoEntregar(i) \/ Guardar(i)
          PROVE  mensajes'[n].estado = mensajes[n].estado
      <3>1. CASE Guardar(i)
        BY <2>0, <3>1 DEF Guardar, ReclamoPropio, Finales
      <3>2. CASE Entregar(i)
        BY <2>0, <3>2 DEF Entregar, Pone
      <3>. QED  BY <2>1, <3>1, <3>2 DEF Leer, NoEntregar
    <2>2. ASSUME NEW i \in Instancias, NEW m \in Mensajes, Reclamar(i, m)
          PROVE  mensajes'[n].estado = mensajes[n].estado
      BY <2>0, <2>2 DEF Reclamar, Reclamable, Pone, Abiertos, Finales
    <2>3. ASSUME NEW m \in Mensajes, Encolar(m) \/ VencePlazo(m) \/ Caduca(m) \/ CambiaDestino(m)
          PROVE  mensajes'[n].estado = mensajes[n].estado
      <3>1. CASE Encolar(m)
        BY <2>0, <3>1 DEF Encolar, Pone, Finales
      <3>2. CASE VencePlazo(m)
        BY <2>0, <3>2 DEF VencePlazo, Pone
      <3>3. CASE Caduca(m) \/ CambiaDestino(m)
        BY <2>0, <3>3 DEF Caduca, CambiaDestino, Pone
      <3>. QED  BY <2>3, <3>1, <3>2, <3>3
    <2>4. ASSUME CambiarPassword \/ Corte PROVE mensajes'[n].estado = mensajes[n].estado
      <3>1. mensajes[n].estado \notin Abiertos
        BY DEF Abiertos, Finales
      <3>. QED
        BY <2>0, <2>4, <3>1 DEF CambiarPassword, CancelarBienvenidas, Cancelables, Corte
    <2>. QED
      BY <2>1, <2>2, <2>3, <2>4 DEF Next, vars, Habilitar, usuario
  <1>. QED  BY <1>1, TiposSiempre, PTL DEF Spec, FinalEsFinal

(* SecretoConMotivo in every reachable state: what replaces a provisional  *)
(* password cancels every open welcome with it.                            *)
THEOREM SecretoConMotivoSiempre == Spec => []SecretoConMotivo
  <1>. DEFINE I == TypeOK /\ SecretoDeBienvenida
  <1>1. Init => I
    BY TiposInicio DEF Init, SecretoDeBienvenida, Ausente
  <1>2. I /\ [Next]_vars => I'
    <2>. SUFFICES ASSUME I, [Next]_vars PROVE SecretoDeBienvenida'
      BY TiposPaso
    <2>. SUFFICES ASSUME NEW n \in Mensajes, mensajes'[n].secreto
                  PROVE  n \in bienvenida' /\ provisoria' /\ mensajes'[n].estado \in Abiertos
      BY DEF SecretoDeBienvenida
    <2>. DEFINE Bien == n \in bienvenida' /\ provisoria' /\ mensajes'[n].estado \in Abiertos
    <2>0. /\ mensajes \in [Mensajes -> Filas] /\ mensajes[n] \in Filas
          /\ mensajes[n].secreto => n \in bienvenida /\ provisoria /\ mensajes[n].estado \in Abiertos
      BY DEF TypeOK, SecretoDeBienvenida
    <2>. USE DEF Filas
    <2>1. ASSUME NEW i \in Instancias, Leer(i) \/ Entregar(i) \/ NoEntregar(i) \/ Guardar(i)
          PROVE  Bien
      <3>0. UNCHANGED usuario
        BY <2>1 DEF Leer, Entregar, NoEntregar, Guardar, Avanza
      <3>1. CASE Guardar(i)
        BY <2>0, <3>0, <3>1 DEF Guardar, Resuelta, usuario, Abiertos
      <3>2. CASE Entregar(i)
        BY <2>0, <3>0, <3>2 DEF Entregar, Pone, usuario
      <3>. QED  BY <2>0, <2>1, <3>0, <3>1, <3>2 DEF Leer, NoEntregar, usuario
    <2>2. ASSUME NEW i \in Instancias, NEW m \in Mensajes, Reclamar(i, m)
          PROVE  Bien
      <3>1. /\ m = n => mensajes'[n].estado = "enviando"
            /\ mensajes'[n].secreto = mensajes[n].secreto
            /\ m # n => mensajes'[n] = mensajes[n]
        BY <2>0, <2>2 DEF Reclamar, Pone
      <3>. QED  BY <2>0, <2>2, <3>1 DEF Reclamar, Abiertos, usuario
    <2>3. ASSUME NEW m \in Mensajes, Encolar(m) PROVE Bien
      BY <2>0, <2>3 DEF Encolar, Pone, Abiertos, usuario
    <2>4. ASSUME NEW m \in Mensajes, VencePlazo(m) \/ Caduca(m) \/ CambiaDestino(m) PROVE Bien
      <3>1. mensajes'[n].secreto = mensajes[n].secreto /\ mensajes'[n].estado = mensajes[n].estado
        <4>1. CASE VencePlazo(m)
          BY <2>0, <4>1 DEF VencePlazo, Pone
        <4>2. CASE Caduca(m)
          BY <2>0, <4>2 DEF Caduca, Pone
        <4>3. CASE CambiaDestino(m)
          BY <2>0, <4>3 DEF CambiaDestino, Pone
        <4>. QED  BY <2>4, <4>1, <4>2, <4>3
      <3>. QED  BY <2>0, <2>4, <3>1 DEF VencePlazo, Caduca, CambiaDestino, usuario
    <2>5. CASE CambiarPassword
      BY <2>0, <2>5 DEF CambiarPassword, CancelarBienvenidas, Cancelables, Cancelada
    <2>6. CASE Corte
      BY <2>0, <2>6 DEF Corte, Cancelada
    <2>. QED
      BY <2>0, <2>1, <2>2, <2>3, <2>4, <2>5, <2>6 DEF Next, vars, Habilitar, usuario
  <1>3. I => SecretoConMotivo
    BY DEF SecretoDeBienvenida, SecretoConMotivo
  <1>. QED  BY <1>1, <1>2, <1>3, PTL DEF Spec

(* What the steps that no execution takes on a message leave as it was.    *)
LEMMA EventosYSostenida ==
  ASSUME TypeOK, NEW n \in Mensajes,
         \/ \E m \in Mensajes : Encolar(m) \/ VencePlazo(m) \/ Caduca(m) \/ CambiaDestino(m)
         \/ CambiarPassword \/ Corte \/ Habilitar
  PROVE  /\ UNCHANGED obra
         /\ mensajes'[n].entregas = mensajes[n].entregas
         /\ mensajes[n].duda => mensajes'[n].duda
         /\ Sostenida(n) /\ ~mensajes'[n].duda => Sostenida(n)'
  <1>0. mensajes \in [Mensajes -> Filas] /\ mensajes[n] \in Filas
    BY DEF TypeOK
  <1>. USE DEF Filas
  <1>1. ASSUME NEW m \in Mensajes, Encolar(m) PROVE mensajes'[n] = mensajes[n] \/ ~Sostenida(n)
    BY <1>0, <1>1 DEF Encolar, Pone, Sostenida, Finales
  <1>2. ASSUME NEW m \in Mensajes, Encolar(m)
        PROVE  mensajes'[n].entregas = mensajes[n].entregas /\ mensajes'[n].duda = mensajes[n].duda
    BY <1>0, <1>2 DEF Encolar, Pone
  <1>3. ASSUME NEW m \in Mensajes, VencePlazo(m)
        PROVE  /\ mensajes'[n].entregas = mensajes[n].entregas
               /\ mensajes'[n].estado = mensajes[n].estado
               /\ mensajes[n].duda => mensajes'[n].duda
               /\ mensajes[n].estado = "enviando" /\ ~mensajes'[n].duda =>
                    mensajes'[n].plazo = mensajes[n].plazo
    <2>1. CASE m = n
      BY <1>0, <1>3, <2>1 DEF VencePlazo, Pone
    <2>2. CASE m # n
      BY <1>0, <1>3, <2>2 DEF VencePlazo, Pone
    <2>. QED  BY <2>1, <2>2
  <1>4. ASSUME NEW m \in Mensajes, Caduca(m) \/ CambiaDestino(m)
        PROVE  /\ mensajes'[n].entregas = mensajes[n].entregas
               /\ mensajes'[n].estado = mensajes[n].estado /\ mensajes'[n].plazo = mensajes[n].plazo
               /\ mensajes'[n].duda = mensajes[n].duda
    <2>1. CASE Caduca(m)
      BY <1>0, <2>1 DEF Caduca, Pone
    <2>2. CASE CambiaDestino(m)
      BY <1>0, <2>2 DEF CambiaDestino, Pone
    <2>. QED  BY <1>4, <2>1, <2>2
  <1>5. ASSUME CambiarPassword \/ Corte
        PROVE  mensajes'[n] = mensajes[n] \/ mensajes'[n] = Cancelada(n)
    BY <1>0, <1>5 DEF CambiarPassword, CancelarBienvenidas, Corte
  <1>6. /\ Cancelada(n).entregas = mensajes[n].entregas /\ Cancelada(n).duda = mensajes[n].duda
        /\ Cancelada(n).estado \in Finales
    BY <1>0 DEF Cancelada, Finales
  <1>7. UNCHANGED obra
    BY DEF Encolar, VencePlazo, Caduca, CambiaDestino, CambiarPassword, Corte, Habilitar
  <1>. QED
    BY <1>1, <1>2, <1>3, <1>4, <1>5, <1>6, <1>7 DEF Sostenida, Habilitar

(* Who works on each message, and whether it arrived: a claim inside its   *)
(* lease is not taken by another.                                          *)
LEMMA EntregasSiempre == Spec => [](TypeOK /\ ObraCierta /\ EntregaCierta)
  <1>. DEFINE I == TypeOK /\ ObraCierta /\ EntregaCierta
  <1>1. Init => I
    BY TiposInicio DEF Init, ObraCierta, EntregaCierta, En, SinObra, Ausente
  <1>2. I /\ [Next]_vars => I'
    <2>. SUFFICES ASSUME I, [Next]_vars PROVE ObraCierta' /\ EntregaCierta'
      BY TiposPaso
    <2>0. /\ mensajes \in [Mensajes -> Filas]
          /\ obra \in [Instancias ->
               [fase : {"nada", "reclamada", "smtp", "guardar"}, mensaje : Mensajes \cup {Nadie},
                resultado : Resultados]]
      BY DEF TypeOK
    <2>1. ASSUME NEW i \in Instancias, Trabajo(i), UNCHANGED <<mensajes, usuario>>
          PROVE  ObraCierta' /\ EntregaCierta'
      <3>1. \A k \in Instancias : obra'[k] = obra[k] \/ obra'[k] = SinObra
        BY <2>0, <2>1 DEF Trabajo, Empieza, Concluye, Libera, Interrumpe
      <3>. QED
        BY <2>1, <3>1 DEF ObraCierta, EntregaCierta, En, Sostenida, SinObra
    <2>2. ASSUME NEW i \in Instancias, Leer(i) PROVE ObraCierta' /\ EntregaCierta'
      <3>1. /\ UNCHANGED mensajes
            /\ \A k \in Instancias : k # i => obra'[k] = obra[k]
            /\ obra'[i].mensaje = obra[i].mensaje /\ obra[i].fase = "reclamada"
        BY <2>0, <2>2 DEF Leer, Avanza
      <3>. QED
        BY <3>1 DEF ObraCierta, EntregaCierta, En, Sostenida
    <2>3. ASSUME NEW i \in Instancias, NoEntregar(i) PROVE ObraCierta' /\ EntregaCierta'
      <3>1. /\ UNCHANGED mensajes
            /\ \A k \in Instancias : k # i => obra'[k] = obra[k]
            /\ obra'[i].mensaje = obra[i].mensaje /\ obra[i].fase = "smtp"
        BY <2>0, <2>3 DEF NoEntregar, Avanza
      <3>. QED
        BY <3>1 DEF ObraCierta, EntregaCierta, En, Sostenida
    <2>4. ASSUME NEW i \in Instancias, Entregar(i) PROVE ObraCierta' /\ EntregaCierta'
      <3>. DEFINE m == obra[i].mensaje
      <3>1. /\ obra[i].fase = "smtp" /\ obra'[i].fase = "guardar" /\ obra'[i].mensaje = m
            /\ \A k \in Instancias : k # i => obra'[k] = obra[k]
            /\ \A n \in Mensajes : n # m => mensajes'[n] = mensajes[n]
            /\ obra'[i].resultado = "fallida" => (m \in Mensajes => mensajes'[m].duda)
        <4>1. PICK a \in BOOLEAN :
                /\ mensajes' = [mensajes EXCEPT ![m] =
                     [mensajes[m] EXCEPT !.entregas = IF @ < MaxEntregas THEN @ + 1 ELSE @,
                                         !.duda = @ \/ ~a]]
                /\ obra' = [obra EXCEPT ![i] =
                     [obra[i] EXCEPT !.fase = "guardar", !.resultado = IF a THEN "enviada" ELSE "fallida"]]
          BY <2>4 DEF Entregar, Avanza, Pone
        <4>2. /\ obra'[i].fase = "guardar" /\ obra'[i].mensaje = m
              /\ obra'[i].resultado = "fallida" => ~a
              /\ \A k \in Instancias : k # i => obra'[k] = obra[k]
          BY <2>0, <4>1
        <4>3. ASSUME ~a, m \in Mensajes PROVE mensajes'[m].duda
          <5>. DEFINE b == mensajes[m].duda \/ ~a
          <5>1. mensajes[m] \in Filas /\ b
            BY <2>0, <4>3
          <5>. HIDE DEF b
          <5>2. \A f \in Filas : [f EXCEPT !.entregas = IF @ < MaxEntregas THEN @ + 1 ELSE @, !.duda = b].duda = b
            BY DEF Filas
          <5>3. mensajes'[m] = [mensajes[m] EXCEPT !.entregas = IF @ < MaxEntregas THEN @ + 1 ELSE @, !.duda = b]
            BY <2>0, <4>1, <4>3 DEF b
          <5>. QED  BY <5>1, <5>2, <5>3
        <4>4. \A n \in Mensajes : n # m => mensajes'[n] = mensajes[n]
          BY <2>0, <4>1
        <4>. QED  BY <2>4, <4>2, <4>3, <4>4 DEF Entregar
      <3>2. m \in Mensajes =>
              /\ mensajes'[m].estado = mensajes[m].estado /\ mensajes'[m].plazo = mensajes[m].plazo
              /\ mensajes[m].duda => mensajes'[m].duda
              /\ mensajes'[m].entregas = mensajes[m].entregas
                   \/ mensajes'[m].entregas = mensajes[m].entregas + 1
        BY <2>0, <2>4 DEF Entregar, Pone, Filas
      <3>3. m \in Mensajes /\ ~mensajes[m].duda =>
              mensajes[m].entregas = 0 /\ Sostenida(m) /\ \A j \in Instancias : En(j, m) => j = i
        BY <3>1 DEF ObraCierta, En
      <3>. HIDE DEF m
      <3>4. \A n \in Mensajes : Sostenida(n) => Sostenida(n)'
        BY <3>1, <3>2 DEF Sostenida
      <3>5. \A j \in Instancias, n \in Mensajes : En(j, n)' => En(j, n)
        BY <3>1 DEF En, m
      <3>6. ObraCierta'
        <4>. SUFFICES ASSUME NEW n \in Mensajes, NEW j \in Instancias, En(j, n)', ~mensajes'[n].duda
                      PROVE  /\ Sostenida(n)' /\ \A k \in Instancias : En(k, n)' => k = j
                             /\ obra'[j].fase # "guardar" \/ obra'[j].resultado = "fallida" =>
                                  mensajes'[n].entregas = 0
          BY DEF ObraCierta
        <4>1. CASE n = m
          BY <3>1, <3>2, <3>3, <3>4, <3>5, <4>1
        <4>2. CASE n # m
          <5>1. j # i
            BY <3>1, <4>2 DEF En
          <5>. QED  BY <3>1, <3>4, <3>5, <4>2, <5>1 DEF ObraCierta
        <4>. QED  BY <4>1, <4>2
      <3>7. EntregaCierta'
        <4>. SUFFICES ASSUME NEW n \in Mensajes, mensajes'[n].entregas > 0, ~mensajes'[n].duda
                      PROVE  mensajes'[n].entregas = 1 /\ Sostenida(n)'
          BY DEF EntregaCierta
        <4>1. CASE n = m
          BY <3>2, <3>3, <3>4, <4>1
        <4>2. CASE n # m
          BY <3>1, <3>4, <4>2 DEF EntregaCierta
        <4>. QED  BY <4>1, <4>2
      <3>. QED  BY <3>6, <3>7
    <2>5. ASSUME NEW i \in Instancias, Guardar(i) PROVE ObraCierta' /\ EntregaCierta'
      <3>. DEFINE m == obra[i].mensaje
                  r == obra[i].resultado
      <3>1. /\ obra[i].fase = "guardar" /\ obra'[i] = SinObra
            /\ \A k \in Instancias : k # i => obra'[k] = obra[k]
            /\ \A n \in Mensajes : n # m => mensajes'[n] = mensajes[n]
        BY <2>0, <2>5 DEF Guardar, Avanza
      <3>2. m \in Mensajes => mensajes'[m] = mensajes[m] \/ mensajes'[m] = Resuelta(m, r)
        BY <2>0, <2>5 DEF Guardar
      <3>3. m \in Mensajes =>
              /\ Resuelta(m, r).estado = r /\ Resuelta(m, r).duda = mensajes[m].duda
              /\ Resuelta(m, r).entregas = mensajes[m].entregas
        BY <2>0 DEF Resuelta, Filas
      <3>4. r \in Finales \/ r = "fallida"
        BY <2>0 DEF Resultados
      <3>5. m \in Mensajes /\ ~mensajes[m].duda =>
              /\ Sostenida(m) /\ \A j \in Instancias : En(j, m) => j = i
              /\ r = "fallida" => mensajes[m].entregas = 0
        BY <3>1 DEF ObraCierta, En
      <3>. HIDE DEF m, r
      <3>6. ObraCierta'
        <4>. SUFFICES ASSUME NEW n \in Mensajes, NEW j \in Instancias, En(j, n)', ~mensajes'[n].duda
                      PROVE  /\ Sostenida(n)' /\ \A k \in Instancias : En(k, n)' => k = j
                             /\ obra'[j].fase # "guardar" \/ obra'[j].resultado = "fallida" =>
                                  mensajes'[n].entregas = 0
          BY DEF ObraCierta
        <4>1. j # i /\ obra'[j] = obra[j] /\ En(j, n)
          BY <3>1 DEF En, SinObra
        <4>2. n # m
          BY <3>2, <3>3, <3>5, <4>1
        <4>. QED  BY <3>1, <4>1, <4>2 DEF ObraCierta, En, Sostenida, SinObra
      <3>7. EntregaCierta'
        <4>. SUFFICES ASSUME NEW n \in Mensajes, mensajes'[n].entregas > 0, ~mensajes'[n].duda
                      PROVE  mensajes'[n].entregas = 1 /\ Sostenida(n)'
          BY DEF EntregaCierta
        <4>1. CASE n = m /\ mensajes'[n] = Resuelta(n, r)
          BY <3>3, <3>4, <3>5, <4>1 DEF EntregaCierta, Sostenida
        <4>2. CASE mensajes'[n] = mensajes[n]
          BY <4>2 DEF EntregaCierta, Sostenida
        <4>. QED  BY <3>1, <3>2, <4>1, <4>2
      <3>. QED  BY <3>6, <3>7
    <2>6. ASSUME NEW i \in Instancias, NEW m \in Mensajes, Reclamar(i, m)
          PROVE  ObraCierta' /\ EntregaCierta'
      <3>1. /\ obra[i] = SinObra /\ obra'[i] = [SinObra EXCEPT !.fase = "reclamada", !.mensaje = m]
            /\ \A k \in Instancias : k # i => obra'[k] = obra[k]
            /\ \A n \in Mensajes : n # m => mensajes'[n] = mensajes[n]
            /\ mensajes'[m].estado = "enviando" /\ mensajes'[m].plazo
            /\ mensajes'[m].duda = mensajes[m].duda /\ mensajes'[m].entregas = mensajes[m].entregas
        BY <2>0, <2>6 DEF Reclamar, Pone, Filas
      <3>2. ~Sostenida(m)
        BY <2>6 DEF Reclamar, Reclamable, Sostenida, Abiertos, Finales
      <3>3. ~mensajes[m].duda => mensajes[m].entregas = 0 /\ \A j \in Instancias : ~En(j, m)
        BY <2>0, <3>2 DEF ObraCierta, EntregaCierta, Filas
      <3>4. Sostenida(m)'
        BY <3>1 DEF Sostenida
      <3>5. \A j \in Instancias, n \in Mensajes : En(j, n)' => En(j, n) \/ (j = i /\ n = m)
        <4>. SUFFICES ASSUME NEW j \in Instancias, NEW n \in Mensajes, En(j, n)'
                      PROVE  En(j, n) \/ (j = i /\ n = m)
          OBVIOUS
        <4>1. CASE j = i
          <5>1. obra'[i].mensaje = m
            BY <3>1 DEF SinObra
          <5>. QED
            BY <4>1, <5>1 DEF En
        <4>2. CASE j # i
          BY <3>1, <4>2 DEF En
        <4>. QED
          BY <4>1, <4>2
      <3>6. ObraCierta'
        <4>. SUFFICES ASSUME NEW n \in Mensajes, NEW j \in Instancias, En(j, n)', ~mensajes'[n].duda
                      PROVE  /\ Sostenida(n)' /\ \A k \in Instancias : En(k, n)' => k = j
                             /\ obra'[j].fase # "guardar" \/ obra'[j].resultado = "fallida" =>
                                  mensajes'[n].entregas = 0
          BY DEF ObraCierta
        <4>1. CASE n = m
          BY <3>1, <3>3, <3>4, <3>5, <4>1
        <4>2. CASE n # m
          <5>1. j # i /\ obra'[j] = obra[j]
            BY <3>1, <3>5, <4>2 DEF En, SinObra
          <5>. QED  BY <3>1, <3>5, <4>2, <5>1 DEF ObraCierta, Sostenida
        <4>. QED  BY <4>1, <4>2
      <3>7. EntregaCierta'
        BY <3>1, <3>3, <3>4 DEF EntregaCierta, Sostenida
      <3>. QED  BY <3>6, <3>7
    <2>7. ASSUME \/ \E m \in Mensajes : Encolar(m) \/ VencePlazo(m) \/ Caduca(m) \/ CambiaDestino(m)
                 \/ CambiarPassword \/ Corte \/ Habilitar
          PROVE  ObraCierta' /\ EntregaCierta'
      BY <2>0, <2>7, EventosYSostenida DEF ObraCierta, EntregaCierta, En, Filas
    <2>8. CASE UNCHANGED <<obra, mensajes>>
      BY <2>8 DEF ObraCierta, EntregaCierta, En, Sostenida
    <2>. QED
      BY <2>1, <2>2, <2>3, <2>4, <2>5, <2>6, <2>7, <2>8 DEF Next, vars
  <1>. QED  BY <1>1, <1>2, PTL DEF Spec

(* DobleSoloEnDuda in every reachable state, for any number of executions  *)
(* that overlap.                                                           *)
THEOREM DobleSoloEnDudaSiempre == Spec => []DobleSoloEnDuda
  <1>1. TypeOK /\ EntregaCierta => DobleSoloEnDuda
    BY DEF EntregaCierta, DobleSoloEnDuda, TypeOK, Filas
  <1>. QED  BY <1>1, EntregasSiempre, PTL

----------------------------------------------------------------------------
(* The messages as EntregaDeCorreo shows them.                             *)

(* Who works on a message works on one that was queued, and takes it for   *)
(* sent only if it arrived.                                                *)
ResultadoCierto ==
  \A m \in Mensajes, i \in Instancias : En(i, m) =>
    /\ mensajes[m].estado # "ausente"
    /\ obra[i].fase = "guardar" /\ obra[i].resultado = "enviada" => mensajes[m].entregas > 0

EnvioIgual(n) == UNCHANGED <<EstadoVisto(n), mensajes[n].secreto, mensajes[n].entregas, mensajes[n].duda>>

(* What is delivered was claimed, and arrived before only in doubt.        *)
LEMMA EntregarEnvio ==
  ASSUME TypeOK, ObraCierta, ResultadoCierto, NEW i \in Instancias, Entregar(i), NEW n \in Mensajes
  PROVE  /\ [Envio(n)!Next]_(Envio(n)!vars)
         /\ obra[i].mensaje = n => mensajes'[n].entregas > 0
         /\ \A j \in Instancias : j # i => obra'[j] = obra[j]
         /\ obra'[i].mensaje = obra[i].mensaje
  <1>. DEFINE m == obra[i].mensaje
  <1>1. PICK a \in BOOLEAN :
          /\ mensajes' = [mensajes EXCEPT ![m] =
               [mensajes[m] EXCEPT !.entregas = IF @ < MaxEntregas THEN @ + 1 ELSE @,
                                   !.duda = @ \/ ~a]]
          /\ obra' = [obra EXCEPT ![i] =
               [obra[i] EXCEPT !.fase = "guardar", !.resultado = IF a THEN "enviada" ELSE "fallida"]]
    BY DEF Entregar, Avanza, Pone
  <1>2. /\ mensajes \in [Mensajes -> Filas] /\ mensajes[n] \in Filas
        /\ obra \in [Instancias ->
             [fase : {"nada", "reclamada", "smtp", "guardar"}, mensaje : Mensajes \cup {Nadie},
              resultado : Resultados]]
    BY DEF TypeOK
  <1>3. obra[i].fase = "smtp"
    BY DEF Entregar
  <1>4. /\ \A j \in Instancias : j # i => obra'[j] = obra[j]
        /\ obra'[i].mensaje = m
    BY <1>1, <1>2
  <1>5. CASE n # m
    BY <1>1, <1>2, <1>4, <1>5 DEF EstadoVisto, Envio!vars
  <1>6. CASE n = m
    <2>. DEFINE e == IF mensajes[n].entregas < MaxEntregas THEN mensajes[n].entregas + 1
                     ELSE mensajes[n].entregas
                d == mensajes[n].duda \/ ~a
    <2>1. /\ mensajes[n].estado # "ausente"
          /\ ~mensajes[n].duda => mensajes[n].entregas = 0
      BY <1>3, <1>6 DEF ObraCierta, ResultadoCierto, En
    <2>2. mensajes'[n] = [mensajes[n] EXCEPT !.entregas = e, !.duda = d]
      BY <1>1, <1>2, <1>6
    <2>6. mensajes[n].duda \in BOOLEAN /\ mensajes[n].entregas \in Nat
      BY <1>2, MaxEntregasNatural DEF Filas
    <2>7. d \in {mensajes[n].duda, TRUE}
      BY <2>6
    <2>8. e > 0
      <3>. HIDE DEF d
      <3>. QED  BY <2>6, MaxEntregasNatural
    <2>3. e > 0 /\ d \in {mensajes[n].duda, TRUE}
      <3>. HIDE DEF d, e
      <3>. QED  BY <2>7, <2>8
    <2>. HIDE DEF d
    <2>4. /\ mensajes'[n].entregas = e /\ mensajes'[n].duda = d
          /\ mensajes'[n].estado = mensajes[n].estado /\ mensajes'[n].secreto = mensajes[n].secreto
      BY <1>2, <2>2 DEF Filas
    <2>5. EstadoVisto(n) # "ausente" /\ UNCHANGED EstadoVisto(n)
      BY <2>1, <2>4 DEF EstadoVisto
    <2>. QED
      BY <1>4, <2>1, <2>3, <2>4, <2>5 DEF Envio!Next, Envio!Llegar
  <1>. QED  BY <1>5, <1>6

(* A result is recorded as a closing, or leaves the message open.          *)
LEMMA GuardarEnvio ==
  ASSUME TypeOK, ResultadoCierto, NEW i \in Instancias, Guardar(i), NEW n \in Mensajes
  PROVE  /\ [Envio(n)!Next]_(Envio(n)!vars)
         /\ obra'[i] = SinObra
         /\ \A j \in Instancias : j # i => obra'[j] = obra[j]
  <1>. DEFINE m == obra[i].mensaje
              r == obra[i].resultado
  <1>1. /\ mensajes \in [Mensajes -> Filas] /\ mensajes[n] \in Filas
        /\ obra \in [Instancias ->
             [fase : {"nada", "reclamada", "smtp", "guardar"}, mensaje : Mensajes \cup {Nadie},
              resultado : Resultados]]
    BY DEF TypeOK
  <1>2. /\ obra'[i] = SinObra /\ \A j \in Instancias : j # i => obra'[j] = obra[j]
        /\ obra[i].fase = "guardar" /\ r \in Resultados
    BY <1>1 DEF Guardar, Avanza
  <1>3. CASE mensajes'[n] = mensajes[n]
    BY <1>2, <1>3 DEF EstadoVisto, Envio!vars
  <1>4. CASE mensajes'[n] # mensajes[n]
    <2>1. n = m /\ ReclamoPropio(i) /\ mensajes'[n] = Resuelta(n, r)
      BY <1>1, <1>4 DEF Guardar
    <2>2. mensajes[n].estado = "enviando"
      BY <2>1 DEF ReclamoPropio
    <2>. DEFINE s == mensajes[n].secreto /\ r = "fallida"
    <2>3. mensajes[n].secreto \in BOOLEAN
      BY <1>1 DEF Filas
    <2>4. /\ r = "fallida" => s = mensajes[n].secreto
          /\ r # "fallida" => s = FALSE
      BY <2>3
    <2>5. /\ Resuelta(n, r).estado = r /\ Resuelta(n, r).secreto = s
          /\ Resuelta(n, r).entregas = mensajes[n].entregas /\ Resuelta(n, r).duda = mensajes[n].duda
      <3>. HIDE DEF r
      <3>. DEFINE p == r = "fallida"
      <3>1. Resuelta(n, r) = [mensajes[n] EXCEPT !.estado = r, !.dueno = Nadie, !.plazo = p, !.secreto = s]
        BY DEF Resuelta
      <3>. HIDE DEF p, s
      <3>. QED  BY <1>1, <3>1 DEF Filas
    <2>6. r = "enviada" => mensajes[n].entregas > 0
      BY <1>2, <2>1 DEF ResultadoCierto, En
    <2>. HIDE DEF r, s
    <2>7. CASE r = "fallida"
      BY <1>2, <2>1, <2>2, <2>4, <2>5, <2>7 DEF EstadoVisto, Abiertos, Envio!vars
    <2>8. CASE r # "fallida"
      <3>1. EstadoVisto(n) = "abierto" /\ EstadoVisto(n)' = r /\ r \in {"enviada", "cancelada"}
        BY <1>2, <2>1, <2>2, <2>5, <2>8 DEF EstadoVisto, Abiertos, Resultados, Finales, r
      <3>. QED
        BY <1>2, <2>1, <2>4, <2>5, <2>6, <2>8, <3>1 DEF Envio!Next, Envio!Cerrar
    <2>. QED  BY <2>7, <2>8
  <1>. QED  BY <1>3, <1>4

(* A claim opens nothing and closes nothing.                               *)
LEMMA ReclamarEnvio ==
  ASSUME TypeOK, NEW i \in Instancias, NEW m \in Mensajes, Reclamar(i, m), NEW n \in Mensajes
  PROVE  /\ EnvioIgual(n)
         /\ m = n => mensajes[n].estado # "ausente"
         /\ obra'[i] = [SinObra EXCEPT !.fase = "reclamada", !.mensaje = m]
         /\ \A j \in Instancias : j # i => obra'[j] = obra[j]
  <1>1. mensajes \in [Mensajes -> Filas] /\ mensajes[n] \in Filas /\ obra' = [obra EXCEPT ![i] = obra'[i]]
    BY DEF TypeOK, Reclamar
  <1>2. obra'[i] = [SinObra EXCEPT !.fase = "reclamada", !.mensaje = m]
        /\ \A j \in Instancias : j # i => obra'[j] = obra[j]
    BY DEF TypeOK, Reclamar
  <1>3. mensajes[m].estado \in Abiertos
    BY DEF Reclamar, Reclamable
  <1>4. CASE m = n
    <2>1. mensajes'[n] = [mensajes[n] EXCEPT !.estado = "enviando", !.plazo = TRUE, !.dueno = i]
      BY <1>1, <1>4 DEF Reclamar, Pone
    <2>2. /\ mensajes'[n].estado = "enviando" /\ mensajes'[n].secreto = mensajes[n].secreto
          /\ mensajes'[n].entregas = mensajes[n].entregas /\ mensajes'[n].duda = mensajes[n].duda
      BY <1>1, <2>1 DEF Filas
    <2>. QED  BY <1>2, <1>3, <1>4, <2>2 DEF EnvioIgual, EstadoVisto, Abiertos
  <1>5. CASE m # n
    BY <1>1, <1>2, <1>5 DEF Reclamar, Pone, EnvioIgual, EstadoVisto
  <1>. QED  BY <1>4, <1>5

(* What happens to the message and to the account queues it, puts it in    *)
(* doubt, cancels it or does not show.                                     *)
LEMMA EventosEnvio ==
  ASSUME TypeOK, NEW n \in Mensajes,
         \/ \E m \in Mensajes : Encolar(m) \/ VencePlazo(m) \/ Caduca(m) \/ CambiaDestino(m)
         \/ CambiarPassword \/ Corte \/ Habilitar
  PROVE  [Envio(n)!Next]_(Envio(n)!vars)
  <1>0. mensajes \in [Mensajes -> Filas] /\ mensajes[n] \in Filas
    BY DEF TypeOK
  <1>1. CASE mensajes'[n] = mensajes[n]
    BY <1>1 DEF EstadoVisto, Envio!vars
  <1>2. CASE Encolar(n)
    <2>. DEFINE b == n \in bienvenida
    <2>1. mensajes'[n] = [mensajes[n] EXCEPT !.estado = "pendiente", !.secreto = b]
      BY <1>0, <1>2 DEF Encolar, Pone
    <2>2. b \in BOOLEAN
      OBVIOUS
    <2>. HIDE DEF b
    <2>4. mensajes[n].estado = "ausente"
      BY <1>2 DEF Encolar
    <2>3. /\ mensajes'[n].estado = "pendiente" /\ mensajes'[n].secreto = b
          /\ mensajes'[n].entregas = mensajes[n].entregas /\ mensajes'[n].duda = mensajes[n].duda
      BY <1>0, <2>1 DEF Filas
    <2>. QED  BY <2>2, <2>3, <2>4 DEF EstadoVisto, Abiertos, Envio!Next, Envio!Encolar
  <1>3. CASE VencePlazo(n)
    <2>. DEFINE d == mensajes[n].duda \/ mensajes[n].estado = "enviando"
    <2>1. mensajes'[n] = [mensajes[n] EXCEPT !.plazo = FALSE, !.duda = d]
      BY <1>0, <1>3 DEF VencePlazo, Pone
    <2>2. mensajes[n].duda \in BOOLEAN
      BY <1>0 DEF Filas
    <2>3. (d = TRUE /\ mensajes[n].estado = "enviando") \/ d = mensajes[n].duda
      BY <2>2
    <2>. HIDE DEF d
    <2>4. /\ mensajes'[n].estado = mensajes[n].estado /\ mensajes'[n].secreto = mensajes[n].secreto
          /\ mensajes'[n].entregas = mensajes[n].entregas /\ mensajes'[n].duda = d
      BY <1>0, <2>1 DEF Filas
    <2>5. UNCHANGED EstadoVisto(n) /\ (mensajes[n].estado = "enviando" => EstadoVisto(n) = "abierto")
      BY <2>4 DEF EstadoVisto, Abiertos
    <2>. QED  BY <2>3, <2>4, <2>5 DEF Envio!Next, Envio!Dudar, Envio!vars
  <1>4. CASE Caduca(n) \/ CambiaDestino(n)
    <2>1. /\ mensajes'[n].estado = mensajes[n].estado /\ mensajes'[n].secreto = mensajes[n].secreto
          /\ mensajes'[n].entregas = mensajes[n].entregas /\ mensajes'[n].duda = mensajes[n].duda
      <3>1. CASE Caduca(n)
        BY <1>0, <3>1 DEF Caduca, Pone, Filas
      <3>2. CASE CambiaDestino(n)
        BY <1>0, <3>2 DEF CambiaDestino, Pone, Filas
      <3>. QED  BY <1>4, <3>1, <3>2
    <2>. QED  BY <2>1 DEF EstadoVisto, Envio!vars
  <1>5. CASE mensajes[n].estado \in Abiertos /\ mensajes'[n] = Cancelada(n)
    <2>1. /\ Cancelada(n).estado = "cancelada" /\ Cancelada(n).secreto = FALSE
          /\ Cancelada(n).entregas = mensajes[n].entregas /\ Cancelada(n).duda = mensajes[n].duda
      BY <1>0 DEF Cancelada, Filas
    <2>2. EstadoVisto(n) = "abierto" /\ EstadoVisto(n)' = "cancelada"
      BY <1>5, <2>1 DEF EstadoVisto, Abiertos
    <2>. QED  BY <1>5, <2>1, <2>2 DEF Envio!Next, Envio!Cerrar
  <1>6. CASE CambiarPassword \/ Corte
    <2>1. mensajes'[n] = mensajes[n] \/ (mensajes[n].estado \in Abiertos /\ mensajes'[n] = Cancelada(n))
      BY <1>0, <1>6 DEF CambiarPassword, CancelarBienvenidas, Cancelables, Corte
    <2>. QED  BY <1>1, <1>5, <2>1
  <1>7. ASSUME NEW m \in Mensajes, m # n,
               Encolar(m) \/ VencePlazo(m) \/ Caduca(m) \/ CambiaDestino(m)
        PROVE  mensajes'[n] = mensajes[n]
    BY <1>0, <1>7 DEF Encolar, VencePlazo, Caduca, CambiaDestino, Pone
  <1>. QED  BY <1>1, <1>2, <1>3, <1>4, <1>6, <1>7 DEF Habilitar

(* The other steps leave the messages alone, and end a work or go on with  *)
(* it without taking it for delivered.                                     *)
LEMMA SinEnvio ==
  ASSUME TypeOK, UNCHANGED mensajes,
         \/ \E i \in Instancias : Trabajo(i) \/ Leer(i) \/ NoEntregar(i)
         \/ UNCHANGED obra
  PROVE  \A j \in Instancias :
           \/ obra'[j] = obra[j] \/ obra'[j].fase = "nada"
           \/ /\ obra[j].fase # "nada" /\ obra'[j].mensaje = obra[j].mensaje
              /\ ~(obra'[j].fase = "guardar" /\ obra'[j].resultado = "enviada")
  <1>1. obra \in [Instancias ->
             [fase : {"nada", "reclamada", "smtp", "guardar"}, mensaje : Mensajes \cup {Nadie},
              resultado : Resultados]]
    BY DEF TypeOK
  <1>2. ASSUME NEW i \in Instancias, Trabajo(i)
        PROVE  \A j \in Instancias : obra'[j] = obra[j] \/ obra'[j].fase = "nada"
    BY <1>1, <1>2 DEF Trabajo, Empieza, Concluye, Libera, Interrumpe, SinObra
  <1>3. ASSUME NEW i \in Instancias, NEW c, obra[i].fase # "nada", Avanza(i, c),
               c.mensaje = obra[i].mensaje, ~(c.fase = "guardar" /\ c.resultado = "enviada"),
               NEW j \in Instancias
        PROVE  \/ obra'[j] = obra[j]
               \/ /\ obra[j].fase # "nada" /\ obra'[j].mensaje = obra[j].mensaje
                  /\ ~(obra'[j].fase = "guardar" /\ obra'[j].resultado = "enviada")
    BY <1>1, <1>3 DEF Avanza
  <1>4. ASSUME NEW i \in Instancias, Leer(i), NEW j \in Instancias
        PROVE  \/ obra'[j] = obra[j]
               \/ /\ obra[j].fase # "nada" /\ obra'[j].mensaje = obra[j].mensaje
                  /\ ~(obra'[j].fase = "guardar" /\ obra'[j].resultado = "enviada")
    <2>1. /\ [obra[i] EXCEPT !.fase = "smtp"].mensaje = obra[i].mensaje
          /\ [obra[i] EXCEPT !.fase = "smtp"].fase = "smtp"
          /\ [obra[i] EXCEPT !.fase = "guardar", !.resultado = "cancelada"].mensaje = obra[i].mensaje
          /\ [obra[i] EXCEPT !.fase = "guardar", !.resultado = "cancelada"].resultado = "cancelada"
      BY <1>1
    <2>2. CASE Permitido(obra[i].mensaje)
      BY <1>3, <1>4, <2>1, <2>2 DEF Leer
    <2>3. CASE ~Permitido(obra[i].mensaje)
      BY <1>3, <1>4, <2>1, <2>3 DEF Leer
    <2>. QED  BY <2>2, <2>3
  <1>5. ASSUME NEW i \in Instancias, NoEntregar(i), NEW j \in Instancias
        PROVE  \/ obra'[j] = obra[j]
               \/ /\ obra[j].fase # "nada" /\ obra'[j].mensaje = obra[j].mensaje
                  /\ ~(obra'[j].fase = "guardar" /\ obra'[j].resultado = "enviada")
    <2>1. /\ [obra[i] EXCEPT !.fase = "guardar", !.resultado = "fallida"].mensaje = obra[i].mensaje
          /\ [obra[i] EXCEPT !.fase = "guardar", !.resultado = "fallida"].resultado = "fallida"
      BY <1>1
    <2>. QED  BY <1>3, <1>5, <2>1 DEF NoEntregar
  <1>. QED  BY <1>2, <1>4, <1>5

(* Every step keeps the promise of each message, and what is known of the  *)
(* works under way.                                                        *)
LEMMA EnvioPaso ==
  ASSUME TypeOK, ObraCierta, ResultadoCierto, [Next]_vars
  PROVE  ResultadoCierto' /\ \A n \in Mensajes : [Envio(n)!Next]_(Envio(n)!vars)
  <1>1. ASSUME NEW n \in Mensajes, [Envio(n)!Next]_(Envio(n)!vars)
        PROVE  /\ mensajes[n].estado # "ausente" => mensajes'[n].estado # "ausente"
               /\ mensajes[n].entregas > 0 => mensajes'[n].entregas > 0
    <2>1. mensajes[n].entregas \in Nat /\ "ausente" \notin Abiertos
      BY MaxEntregasNatural DEF TypeOK, Filas, Abiertos
    <2>2. EstadoVisto(n) = "ausente" <=> mensajes[n].estado = "ausente"
      BY DEF EstadoVisto, Abiertos
    <2>3. EstadoVisto(n)' = "ausente" <=> mensajes'[n].estado = "ausente"
      BY DEF EstadoVisto, Abiertos
    <2>. DEFINE Bien == /\ EstadoVisto(n) # "ausente" => EstadoVisto(n)' # "ausente"
                        /\ mensajes[n].entregas > 0 => mensajes'[n].entregas > 0
    <2>4. ASSUME Envio(n)!Encolar \/ Envio(n)!Dudar \/ Envio(n)!Cerrar \/ UNCHANGED Envio(n)!vars
          PROVE  Bien
      <3>1. mensajes'[n].entregas = mensajes[n].entregas
        BY <2>4 DEF Envio!vars, Envio!Encolar, Envio!Dudar, Envio!Cerrar
      <3>2. EstadoVisto(n) # "ausente" => EstadoVisto(n)' # "ausente"
        BY <2>4 DEF Envio!vars, Envio!Encolar, Envio!Dudar, Envio!Cerrar
      <3>. QED  BY <3>1, <3>2
    <2>5. ASSUME Envio(n)!Llegar PROVE Bien
      <3>1. /\ mensajes'[n].entregas = IF mensajes[n].entregas < MaxEntregas
                                       THEN mensajes[n].entregas + 1 ELSE mensajes[n].entregas
            /\ EstadoVisto(n)' = EstadoVisto(n)
        BY <2>5 DEF Envio!Llegar
      <3>. QED  BY <2>1, <3>1
    <2>. HIDE DEF Bien
    <2>6. Bien
      BY <1>1, <2>4, <2>5 DEF Envio!Next
    <2>. QED  BY <2>2, <2>3, <2>6 DEF Bien
  <1>2. CASE \E i \in Instancias : Entregar(i)
    <2>1. PICK i \in Instancias : Entregar(i)
      BY <1>2
    <2>2. \A n \in Mensajes : [Envio(n)!Next]_(Envio(n)!vars)
      BY <2>1, EntregarEnvio
    <2>. SUFFICES ASSUME NEW n \in Mensajes, NEW j \in Instancias, En(j, n)'
                  PROVE  /\ mensajes'[n].estado # "ausente"
                         /\ obra'[j].fase = "guardar" /\ obra'[j].resultado = "enviada" =>
                              mensajes'[n].entregas > 0
      BY <2>2 DEF ResultadoCierto
    <2>3. CASE j = i
      <3>1. obra[i].mensaje = n /\ En(i, n)
        BY <2>1, <2>3, EntregarEnvio DEF En, Entregar
      <3>. QED  BY <1>1, <2>1, <2>2, <3>1, EntregarEnvio DEF ResultadoCierto
    <2>4. CASE j # i
      <3>1. obra'[j] = obra[j] /\ En(j, n)
        BY <2>1, <2>4, EntregarEnvio DEF En
      <3>. QED  BY <1>1, <2>2, <3>1 DEF ResultadoCierto
    <2>. QED  BY <2>3, <2>4
  <1>3. ASSUME \A n \in Mensajes : [Envio(n)!Next]_(Envio(n)!vars),
               \A j \in Instancias :
                 \/ obra'[j] = obra[j] \/ obra'[j].fase = "nada"
                 \/ /\ obra[j].fase # "nada" /\ obra'[j].mensaje = obra[j].mensaje
                    /\ ~(obra'[j].fase = "guardar" /\ obra'[j].resultado = "enviada")
        PROVE  ResultadoCierto'
    <2>. SUFFICES ASSUME NEW n \in Mensajes, NEW j \in Instancias, En(j, n)'
                  PROVE  /\ mensajes'[n].estado # "ausente"
                         /\ obra'[j].fase = "guardar" /\ obra'[j].resultado = "enviada" =>
                              mensajes'[n].entregas > 0
      BY DEF ResultadoCierto
    <2>1. En(j, n)
      BY <1>3 DEF En
    <2>. QED  BY <1>1, <1>3, <2>1 DEF ResultadoCierto, En
  <1>4. CASE \E i \in Instancias : Guardar(i)
    <2>1. PICK i \in Instancias : Guardar(i)
      BY <1>4
    <2>2. \A n \in Mensajes : [Envio(n)!Next]_(Envio(n)!vars)
      BY <2>1, GuardarEnvio
    <2>3. \A n \in Mensajes, j \in Instancias : obra'[j] = obra[j] \/ obra'[j].fase = "nada"
      BY <2>1, GuardarEnvio DEF SinObra
    <2>4. CASE Mensajes = {}
      BY <2>2, <2>4 DEF ResultadoCierto
    <2>5. CASE Mensajes # {}
      BY <1>3, <2>2, <2>3, <2>5
    <2>. QED  BY <2>4, <2>5
  <1>5. CASE \E i \in Instancias, m \in Mensajes : Reclamar(i, m)
    <2>1. PICK i \in Instancias, m \in Mensajes : Reclamar(i, m)
      BY <1>5
    <2>2. \A n \in Mensajes : EnvioIgual(n)
      BY <2>1, ReclamarEnvio
    <2>3. \A n \in Mensajes : [Envio(n)!Next]_(Envio(n)!vars)
      BY <2>2 DEF EnvioIgual, Envio!vars
    <2>. SUFFICES ASSUME NEW n \in Mensajes, NEW j \in Instancias, En(j, n)'
                  PROVE  /\ mensajes'[n].estado # "ausente"
                         /\ obra'[j].fase = "guardar" /\ obra'[j].resultado = "enviada" =>
                              mensajes'[n].entregas > 0
      BY <2>3 DEF ResultadoCierto
    <2>4. CASE j = i
      <3>0. /\ obra'[j] = [SinObra EXCEPT !.fase = "reclamada", !.mensaje = m]
            /\ mensajes[m].estado # "ausente"
        BY <2>1, <2>4, ReclamarEnvio
      <3>1. obra'[j].fase = "reclamada" /\ obra'[j].mensaje = m
        BY <3>0 DEF SinObra
      <3>2. n = m
        BY <3>1 DEF En
      <3>. QED  BY <1>1, <2>3, <3>0, <3>1, <3>2
    <2>5. CASE j # i
      <3>1. obra'[j] = obra[j] /\ En(j, n)
        BY <2>1, <2>5, ReclamarEnvio DEF En
      <3>. QED  BY <1>1, <2>3, <3>1 DEF ResultadoCierto
    <2>. QED  BY <2>4, <2>5
  <1>6. CASE \/ \E m \in Mensajes : Encolar(m) \/ VencePlazo(m) \/ Caduca(m) \/ CambiaDestino(m)
             \/ CambiarPassword \/ Corte \/ Habilitar
    <2>1. \A n \in Mensajes : [Envio(n)!Next]_(Envio(n)!vars)
      BY <1>6, EventosEnvio
    <2>2. UNCHANGED obra
      BY <1>6 DEF Encolar, VencePlazo, Caduca, CambiaDestino, CambiarPassword, Corte, Habilitar
    <2>. QED  BY <1>3, <2>1, <2>2
  <1>7. CASE /\ UNCHANGED mensajes
             /\ \/ \E i \in Instancias : Trabajo(i) \/ Leer(i) \/ NoEntregar(i)
                \/ UNCHANGED obra
    <2>1. \A n \in Mensajes : [Envio(n)!Next]_(Envio(n)!vars)
      BY <1>7 DEF EstadoVisto, Envio!vars
    <2>. QED  BY <1>3, <1>7, <2>1, SinEnvio
  <1>. QED
    BY <1>2, <1>4, <1>5, <1>6, <1>7 DEF Next, vars, Leer, NoEntregar

(* For any number of executions and messages, each message keeps           *)
(* EntregaDeCorreo: what is recorded as sent arrived, and nothing is sent  *)
(* again without a doubt.                                                  *)
THEOREM EnviosCumplenSiempre == Spec => EnviosCumplen
  <1>. DEFINE I == TypeOK /\ ObraCierta
              Paso == \A m \in Mensajes : [Envio(m)!Next]_(Envio(m)!vars)
  <1>1. Init => ResultadoCierto /\ \A m \in Mensajes : Envio(m)!Init
    BY DEF Init, ResultadoCierto, En, SinObra, Ausente, EstadoVisto, Abiertos, Envio!Init
  <1>2. I /\ ResultadoCierto /\ [Next]_vars => ResultadoCierto' /\ Paso
    BY EnvioPaso
  <1>3. I /\ ResultadoCierto /\ [Next]_vars => ResultadoCierto' /\ [Paso]_vars
    BY <1>2
  <1>4. Spec => []I
    BY EntregasSiempre, PTL
  <1>. HIDE DEF I, Paso
  <1>5. Spec => [][Paso]_vars
    BY <1>1, <1>3, <1>4, PTL DEF Spec
  <1>6. Spec => \A m \in Mensajes : Envio(m)!Init
    BY <1>1 DEF Spec
  <1>. QED  BY <1>5, <1>6 DEF EnviosCumplen, Paso
=============================================================================
